---- MODULE Spec2Model ----
(***************************************************************************)
(* Verification model of the Produkt-Data synchronisation scripts:         *)
(* the bounded-concurrency Limiter, the chunked attendance fetch, the      *)
(* per-event order sync, the paginated fetchers, the ticket classifiers    *)
(* and the transaction replay.                                             *)
(*                                                                         *)
(* Each component has its own variables and its own specification; a       *)
(* specification leaves the variables of the other components at their     *)
(* initial values.                                                         *)
(***************************************************************************)
EXTENDS Integers, Sequences, FiniteSets, TLC

VARIABLES
  \* ---- Limiter (src/sync-orders.js:31-39) ----
  maxConcurrent,  \* this.maxConcurrent, set by the constructor
  current,        \* this.current
  queue,          \* this.queue: the resolve callbacks of the waiters, by task id
  microtasks,     \* continuations of woken waiters, in the order they were resolved
  taskPc,         \* position of every execute() call
  waited,         \* tasks that awaited in the while loop at least once
  \* ---- fetchAllTransactions (src/old/old-sync-attendance.js:305-326) ----
  chunkI,         \* loop variable i
  chunkPc,        \* "loop" | "await" | "done"
  chunkInFlight,  \* tasks of the current batch whose promise is pending
  chunkResults,   \* serial indexes stored in the results map
  \* ---- runFullSync / main (src/sync-orders.js:156-242) ----
  runPc,          \* "idle" | "submitting" | "awaiting" | "finished" | "exited"
  rejected,       \* the Promise.all of runFullSync has been rejected
  syncStep,       \* per event, the await syncEventData is suspended at
  ordersSaved,    \* events whose order rows were upserted into events_orders
  markerUpdated,  \* events whose event_order_updated was written
  usersSaved,     \* events whose user map reached the events_users upsert
  usersSaveError, \* saveBatchToDB('events_users', ...) returned false
  \* ---- paginated fetchers (src/sync-orders.js:70-89, src/sync-events.js:231-271,
  \*      src/unnamed/part_004:81-101) ----
  fKind,          \* "orders" | "events" | "user": which fetcher runs
  fPc,            \* "loop" while hasMorePages, then "done"
  pageNumber,     \* pageNumber
  allOrders,      \* allOrders / allEvents: the records accumulated so far
  fResult,        \* the value returned to the caller
  fClock,         \* the t parameter (Date.now()) of the last request, as a bucket
  requests,       \* page numbers requested, recorded until the first failed request
  responses,      \* size of every array answered (-1: a body that is no array)
  fFailed,        \* a request failed (timeout, 5xx)
  \* ---- classifiers (src/old/sync-attendance-direct.js:480-556,
  \*      src/verify-classification.js:7-93) ----
  clsFn,          \* "none" | "getReportingCategory" | "classifyItem"
  clsInput,       \* the item handed to the classifier
  clsResult,      \* what the classifier returned
  \* ---- processTransactions (src/old/old-sync-attendance.js:100-137,
  \*      src/unnamed/part_003:66-102) ----
  rpPc,           \* "call" before processTransactions returns, then "done"
  rpInput,        \* the transactions argument
  rpResult,       \* { state, checkInCount, firstCheckInTime }
  \* ---- aggregateResults / POST /webhook/ticket, for one order row
  \*      (src/unnamed/part_000:243-290, src/old/old-sync-attendance.js:328-386,
  \*      src/old/sync-attendance-direct.js:187-246, src/unnamed/part_003:140-189) ----
  agKind,         \* "states" | "transactions" | "direct": which aggregator runs
  agPc,           \* "call" before the row is handled, then "done"
  agOrder,        \* the stored row: serial list and check-in state, count, time
  agFresh,        \* newStates, newCheckinCount, newFirstCheckinTime
  agWrote,        \* an update of the row was emitted
  \* ---- checkForEventChanges (src/sync-events.js:311-443) ----
  rcPc,           \* "compare" | "removed" | "upsert" | "delete" | "done"
  rcDb,           \* dbEvents: the persisted events, by event_id
  rcFresh,        \* tixrEvents: the fresh fetch, in the order fetched
  rcI,            \* number of fresh events the first loop has handled
  rcMap,          \* the keys left in dbEventsMap
  rcChanges,      \* changes.new, changes.updated, changes.removed, changes.statusChanged
  rcUpserted,     \* the events handed to upsert
  rcDeleted,      \* the ids handed to delete
  \* ---- syncEventData, syncEventSales, updateEventSalesAggregate
  \*      (src/sync-orders.js:108-140, src/sync-sales.js:60-161,
  \*      src/webhook-server.js:106-214) ----
  slOrders,       \* rawOrders: the orders Tixr holds for the event
  slRows,         \* the rows of the event in events_orders
  slPc,           \* "orders" | "stored" | "paging" | "computed"
  slAllOrders,    \* allOrders of syncEventSales
  slPage,         \* page of syncEventSales
  slRuns,         \* number of events_sales upserts made for the event
  slSales,        \* the row of the event in events_sales
  slPrev,         \* the row the upsert before the last one wrote
  \* ---- webhook endpoints (src/webhook-server.js:218-311, 533-620,
  \*      src/unnamed/part_003:106-197) ----
  whReq,          \* endpoint, body fields and signature header of the request
  whSecret,       \* WEBHOOK_SECRET is configured
  whPc,           \* "received" | "responded"
  whStatus,       \* res.status(...)
  whIo,           \* datastore and Tixr operations of the handler, in order
  whDb,           \* what the datastore call of the handler came to, "none" without one
  whStored,       \* the row of the event in events before the request
  whRow,          \* the row of the event in events
  \* ---- Signed requests to the Tixr API ----
  sgPc,           \* "idle", "ready" to build a request, or "sent"
  sgUrl,          \* the URL of the request sent last
  sgCache,        \* hashCache of the attendance programs
  sgCount,        \* requests sent so far
  \* ---- Attendance recap of aggregateResults ----
  rcpKind,        \* "transactions" (old-sync-attendance.js) or "direct" (sync-attendance-direct.js)
  rcpPc,          \* "idle", "rows" while the loop over the orders runs, "threw", "returned"
  rcpRecap,       \* recap
  rcpSeen,        \* CHECKED_IN tickets of the rows handled so far
  rcpIns,         \* check-ins, re-entries included, of the rows handled so far
  rcpRows,        \* rows handled so far
  \* ---- Repeated attendance sync passes (old-sync-attendance.js) ----
  psRows,         \* the rows of events_orders, in the order fetchAllOrdersForEvents returns them
  psPc,           \* "idle", "aggregate", "update" while a batch of updates is in flight, "done"
  psUpdates,      \* updatesToApply of the pass
  psPending,      \* the updates of the batch the datastore has not applied yet
  psPass,         \* passes started
  hkOrder,        \* per handler, the order its webhook names, as Tixr answers it
  hkPc,           \* per handler, the await it has reached in POST /webhook/order
  hkRows,         \* events_orders: the stored rows of each order
  hkEventIds,     \* events_users: the stored event_ids of the user
  hkHeld,         \* the event_ids of the user before the webhooks arrived
  hkSeen,         \* per handler, existingEvents as its select answered
  hkRead,         \* per handler, orders as the select of the aggregation answered
  hkSales,        \* events_sales: the stored row of each event
  hkErr,          \* the handlers one of whose datastore calls answered an error
  enKind,         \* "run": enrichUsers; "single": processSingleUser
  enPc,           \* position in the function
  enNull,         \* events_users: the users whose last_enriched_at is null
  enStart,        \* the users whose last_enriched_at was null when the run started
  enBatch,        \* batchNum
  enIds,          \* userIds of the batch
  enFans,         \* the users of fanDetails
  enFetched,      \* the users some batch has selected
  enFailed,       \* a query of the run answered an error
  puFan,          \* what fetchFanDetails returned: "data" | "null" | "error" | "none"
  puUpstream,     \* the orders of the fan, as the orders endpoint lists them
  puPage,         \* pageNumber of fetchOrdersForUser
  puOrders,       \* allOrders of fetchOrdersForUser; the value it returns
  puStored,       \* the row of the user in events_users before the call
  puRow,          \* the row of the user in events_users
  ccUpstream,     \* the events of the group upstream, as the events endpoint lists them
  ccStored,       \* the rows of events before the run
  ccDb,           \* the rows of events
  ccPc,           \* position in checkForEventChanges
  ccPage,         \* pageNumber of fetchAllTixrEvents
  ccAll,          \* allEvents of fetchAllTixrEvents
  ccRetried,      \* a page request has thrown and was retried
  ccRemoved       \* changes.removed

limVars == <<maxConcurrent, current, queue, microtasks, taskPc, waited>>
chunkVars == <<chunkI, chunkPc, chunkInFlight, chunkResults>>
syncVars == <<runPc, rejected, syncStep, ordersSaved, markerUpdated, usersSaved, usersSaveError>>
fetchVars == <<fKind, fPc, pageNumber, allOrders, fResult, fClock, requests, responses, fFailed>>
clsVars == <<clsFn, clsInput, clsResult>>
rpVars == <<rpPc, rpInput, rpResult>>
agVars == <<agKind, agPc, agOrder, agFresh, agWrote>>
rcVars == <<rcPc, rcDb, rcFresh, rcI, rcMap, rcChanges, rcUpserted, rcDeleted>>
slVars == <<slOrders, slRows, slPc, slAllOrders, slPage, slRuns, slSales, slPrev>>
whVars == <<whReq, whSecret, whPc, whStatus, whIo, whDb, whStored, whRow>>
sgVars == <<sgPc, sgUrl, sgCache, sgCount>>
rcpVars == <<rcpKind, rcpPc, rcpRecap, rcpSeen, rcpIns, rcpRows>>
psVars == <<psRows, psPc, psUpdates, psPending, psPass>>
hkVars == <<hkOrder, hkPc, hkRows, hkEventIds, hkHeld, hkSeen, hkRead, hkSales, hkErr>>
enVars == <<enKind, enPc, enNull, enStart, enBatch, enIds, enFans, enFetched, enFailed, puFan, puUpstream, puPage, puOrders, puStored, puRow>>
ccVars == <<ccUpstream, ccStored, ccDb, ccPc, ccPage, ccAll, ccRetried, ccRemoved>>
vars == <<limVars, chunkVars, syncVars, fetchVars, clsVars, rpVars, agVars, rcVars, slVars, whVars, sgVars, rcpVars, psVars, hkVars, enVars, ccVars>>

(***************************************************************************)
(* Bounds of the model                                                     *)
(***************************************************************************)
\* number of execute() calls made on one Limiter
NumTasks == 4
\* largest ceiling a Limiter is constructed with (MAX_CONCURRENT_EVENTS and
\* MAX_CONCURRENT_API_CALLS, scaled)
MaxCeiling == 2
\* number of serial tasks handed to fetchAllTransactions
NumSerials == 4
\* chunk size of fetchAllTransactions (API_CONCURRENCY_LIMIT, scaled)
ApiConcurrencyLimit == 2

\* page size of the fetchers (ORDER_FETCH_PAGE_SIZE, ORDER_PAGE_SIZE and the
\* literal 100 of fetchAllTixrEvents, scaled)
PageSize == 2
\* number of full pages the upstream list can serve
MaxFullPages == 3
\* number of buckets of the request timestamp
ClockMod == 2
\* number of keyword phrases an item name is made of
MaxPhrases == 2
\* longest transaction log of one ticket
MaxLog == 3
\* latest transaction date, in epoch milliseconds (scaled)
MaxDate == 3
\* longest serial list of one order row
MaxRowSerials == 2
\* largest number of events the fresh fetch returns
MaxFresh == 2
\* largest number of orders of the event
MaxOrders == 2
\* pageSize of syncEventSales (1000 in the source)
SalesPageSize == 2
\* number of times the sales of the event are aggregated
MaxRuns == 2

\* requests to the Tixr API followed in one run
MaxRequests == 3
\* order rows the recap is followed over
MaxRecapRows == 2
\* rows of events_orders and passes of the attendance sync over them
MaxPassRows == 2
MaxPasses == 2
\* number of users in events_users
MaxUsers == 4
\* users per batch of enrichUsers (USERS_PER_BATCH, scaled)
UsersPerBatch == 2
\* most orders the orders endpoint lists for one fan
MaxUserOrders == 3

Tasks == 1..NumTasks
Serials == 1..NumSerials

(***************************************************************************)
(* Limiter                                                                 *)
(***************************************************************************)
\* constructor(maxConcurrent)
LimiterInit ==
  /\ maxConcurrent \in 1..MaxCeiling
  /\ current = 0
  /\ queue = <<>>
  /\ microtasks = <<>>
  /\ taskPc = [t \in Tasks |-> "idle"]
  /\ waited = {}

\* the loop condition of execute(): while (this.current >= this.maxConcurrent)
MustWaitOffByOne(cur) == cur > maxConcurrent
MustWait(cur) == cur >= maxConcurrent

\* One pass over the while loop followed, when the loop exits, by current++ and
\* the call of fn(): either the caller parks a resolve callback in the queue or
\* it takes a slot and its task starts.
Admit(t) ==
  IF MustWait(current)
  THEN /\ queue' = Append(queue, t)
       /\ taskPc' = [taskPc EXCEPT ![t] = "queued"]
       /\ waited' = waited \cup {t}
       /\ UNCHANGED <<maxConcurrent, current>>
  ELSE /\ current' = current + 1
       /\ taskPc' = [taskPc EXCEPT ![t] = "running"]
       /\ UNCHANGED <<maxConcurrent, queue, waited>>

\* limiter.execute(fn) is called.  Tasks are interchangeable, so the calls are
\* made in the order of the task ids: task t calls after task t - 1.
Execute(t) ==
  /\ taskPc[t] = "idle"
  /\ \A u \in Tasks : u < t => taskPc[u] # "idle"
  /\ Admit(t)
  /\ UNCHANGED microtasks

\* The continuation of the oldest resolved waiter runs: it re-evaluates the
\* loop condition.
Resume ==
  /\ microtasks # <<>>
  /\ microtasks' = Tail(microtasks)
  /\ Admit(Head(microtasks))

\* fn() settles (outcome "ok": resolved, "throw": rejected); the finally block
\* runs in both cases: current--, queue.shift(), next().
FinishNoFinally(t, outcome) ==
  /\ taskPc[t] = "running"
  /\ IF outcome = "throw"
     THEN /\ taskPc' = [taskPc EXCEPT ![t] = "failed"]
          /\ UNCHANGED <<current, queue, microtasks>>
     ELSE /\ current' = current - 1
          /\ IF queue # <<>>
             THEN /\ queue' = Tail(queue)
                  /\ microtasks' = Append(microtasks, Head(queue))
                  /\ taskPc' = [taskPc EXCEPT ![t] = "done", ![Head(queue)] = "woken"]
             ELSE /\ taskPc' = [taskPc EXCEPT ![t] = "done"]
                  /\ UNCHANGED <<queue, microtasks>>
  /\ UNCHANGED <<maxConcurrent, waited>>
Finish(t, outcome) ==
  /\ taskPc[t] = "running"
  /\ current' = current - 1
  /\ LET final == IF outcome = "throw" THEN "failed" ELSE "done" IN
     IF queue # <<>>
     THEN /\ queue' = Tail(queue)
          /\ microtasks' = Append(microtasks, Head(queue))
          /\ taskPc' = [taskPc EXCEPT ![t] = final, ![Head(queue)] = "woken"]
     ELSE /\ taskPc' = [taskPc EXCEPT ![t] = final]
          /\ UNCHANGED <<queue, microtasks>>
  /\ UNCHANGED <<maxConcurrent, waited>>

\* a Limiter nobody calls
LimiterIdle ==
  /\ maxConcurrent = 1
  /\ current = 0
  /\ queue = <<>>
  /\ microtasks = <<>>
  /\ taskPc = [t \in Tasks |-> "idle"]
  /\ waited = {}

Started(t) == taskPc[t] \in {"running", "done", "failed"}
InFlight == {t \in Tasks : taskPc[t] = "running"}

(***************************************************************************)
(* fetchAllTransactions: batches of API_CONCURRENCY_LIMIT lookups          *)
(***************************************************************************)
ChunkInit ==
  /\ chunkI = 0
  /\ chunkPc = "loop"
  /\ chunkInFlight = {}
  /\ chunkResults = {}

\* tasks.slice(i, i + API_CONCURRENCY_LIMIT), as 1-based indexes
Batch(i) == {s \in Serials : s > i /\ s <= i + ApiConcurrencyLimit}

\* loop test passes: the batch's promises are all created at once
ChunkStartBatch ==
  /\ chunkPc = "loop"
  /\ chunkI < NumSerials
  /\ chunkInFlight' = Batch(chunkI)
  /\ chunkPc' = "await"
  /\ UNCHANGED <<chunkI, chunkResults>>

\* one getAttendanceTransactions call settles (it never rejects)
ChunkSettle(s) ==
  /\ chunkPc = "await"
  /\ s \in chunkInFlight
  /\ chunkInFlight' = chunkInFlight \ {s}
  /\ UNCHANGED <<chunkI, chunkPc, chunkResults>>

\* Promise.all resolves: results are stored, i += API_CONCURRENCY_LIMIT
ChunkBatchDone ==
  /\ chunkPc = "await"
  /\ chunkInFlight = {}
  /\ chunkResults' = chunkResults \cup Batch(chunkI)
  /\ chunkI' = chunkI + ApiConcurrencyLimit
  /\ chunkPc' = "loop"
  /\ UNCHANGED chunkInFlight

ChunkReturn ==
  /\ chunkPc = "loop"
  /\ chunkI >= NumSerials
  /\ chunkPc' = "done"
  /\ UNCHANGED <<chunkI, chunkInFlight, chunkResults>>

(***************************************************************************)
(* runFullSync: one Limiter task per event, awaited with Promise.all       *)
(***************************************************************************)
SyncIdle ==
  /\ runPc = "idle"
  /\ rejected = FALSE
  /\ syncStep = [t \in Tasks |-> "none"]
  /\ ordersSaved = {}
  /\ markerUpdated = {}
  /\ usersSaved = {}
  /\ usersSaveError = FALSE

SyncInit ==
  /\ runPc = "submitting"
  /\ rejected = FALSE
  /\ syncStep = [t \in Tasks |-> "none"]
  /\ ordersSaved = {}
  /\ markerUpdated = {}
  /\ usersSaved = {}
  /\ usersSaveError = FALSE

\* a task that the Limiter has just started calls syncEventData, which issues
\* its first page request and suspends
EnterSyncEventData ==
  syncStep' = [t \in Tasks |->
                 IF taskPc'[t] = "running" /\ taskPc[t] # "running"
                 THEN "fetch" ELSE syncStep[t]]

\* eventsToProcess.map(event => eventLimiter.execute(...)): the calls are made
\* synchronously, one per event, before any task can settle.
SyncSubmit(t) ==
  /\ runPc = "submitting"
  /\ Execute(t)
  /\ EnterSyncEventData
  /\ runPc' = IF t = NumTasks THEN "awaiting" ELSE "submitting"
  /\ UNCHANGED <<rejected, ordersSaved, markerUpdated, usersSaved, usersSaveError>>

\* the continuation of a woken waiter; it is a microtask and runs before the
\* rejection of Promise.all reaches main().catch
SyncResume ==
  /\ runPc = "awaiting"
  /\ Resume
  /\ EnterSyncEventData
  /\ UNCHANGED <<runPc, rejected, ordersSaved, markerUpdated, usersSaved, usersSaveError>>

\* an I/O completion is handled only after the microtasks of the previous one
\* have run, and never after process.exit
IoTurn ==
  /\ runPc = "awaiting"
  /\ ~rejected
  /\ microtasks = <<>>

\* fetchAllOrdersForEvent returned (it never rejects) and the orders are
\* transformed: new Date(order.purchase_date).toISOString() throws on a
\* missing or unparseable purchase_date ("throw"), which rejects the task's
\* execute() promise and with it the Promise.all.
SyncTransformed(t, outcome) ==
  /\ IoTurn
  /\ syncStep[t] = "fetch"
  /\ IF outcome = "throw"
     THEN /\ Finish(t, "throw")
          /\ syncStep' = [syncStep EXCEPT ![t] = "none"]
          /\ rejected' = TRUE
     ELSE /\ syncStep' = [syncStep EXCEPT ![t] = "save"]
          /\ UNCHANGED <<limVars, rejected>>
  /\ UNCHANGED <<runPc, ordersSaved, markerUpdated, usersSaved, usersSaveError>>

\* saveBatchToDB('events_orders', ...) returned; its boolean is not read
SyncOrdersSaved(t, dbError) ==
  /\ IoTurn
  /\ syncStep[t] = "save"
  /\ syncStep' = [syncStep EXCEPT ![t] = "mark"]
  /\ ordersSaved' = IF dbError THEN ordersSaved ELSE ordersSaved \cup {t}
  /\ UNCHANGED <<limVars, runPc, rejected, markerUpdated, usersSaved, usersSaveError>>

\* the update of event_order_updated returned; syncEventData returns its user
\* map and the task settles
SyncMarked(t) ==
  /\ IoTurn
  /\ syncStep[t] = "mark"
  /\ Finish(t, "ok")
  /\ syncStep' = [syncStep EXCEPT ![t] = "none"]
  /\ markerUpdated' = markerUpdated \cup {t}
  /\ UNCHANGED <<runPc, rejected, ordersSaved, usersSaved, usersSaveError>>

\* main().catch(err => { ...; process.exit(1) }): the process ends, with the
\* tasks of the other events wherever they are.
SyncExit ==
  /\ runPc = "awaiting"
  /\ rejected
  /\ microtasks = <<>>
  /\ runPc' = "exited"
  /\ UNCHANGED <<limVars, rejected, syncStep, ordersSaved, markerUpdated, usersSaved, usersSaveError>>

\* Promise.all resolved: the user maps are consolidated and upserted
SyncConsolidate(dbError) ==
  /\ runPc = "awaiting"
  /\ \A t \in Tasks : taskPc[t] = "done"
  /\ usersSaved' = IF dbError THEN {} ELSE Tasks
  /\ usersSaveError' = dbError
  /\ runPc' = "finished"
  /\ UNCHANGED <<limVars, rejected, syncStep, ordersSaved, markerUpdated>>

(***************************************************************************)
(* Paginated fetchers                                                      *)
(***************************************************************************)
FetchIdle ==
  /\ fKind = "none"
  /\ fPc = "done"
  /\ pageNumber = 1
  /\ allOrders = <<>>
  /\ fResult = [tag |-> "pending", value |-> <<>>]
  /\ fClock = 0
  /\ requests = <<>>
  /\ responses = <<>>
  /\ fFailed = FALSE

\* const allOrders = []; let pageNumber = 1; let hasMorePages = true;
FetchInit ==
  /\ fKind \in {"orders", "events", "user"}
  /\ fPc = "loop"
  /\ pageNumber = 1
  /\ allOrders = <<>>
  /\ fResult = [tag |-> "pending", value |-> <<>>]
  /\ fClock = 0
  /\ requests = <<>>
  /\ responses = <<>>
  /\ fFailed = FALSE

\* what the API can answer to one page request: a failure, a body that is no
\* array, or an array of 0..PageSize records; the upstream list is finite
Answers ==
  {[kind |-> "fail", size |-> 0], [kind |-> "notArray", size |-> 0]} \cup
  {[kind |-> "array", size |-> n] :
     n \in {m \in 0..PageSize : m = PageSize => Len(responses) < MaxFullPages}}

\* the array of n records answered for page p
Page(p, n) == [i \in 1..n |-> <<p, i>>]

ArrayResult(records) == [tag |-> "array", value |-> records]
NullResult == [tag |-> "null", value |-> <<>>]

\* the request is issued with a fresh t and the requested page is logged
IssueRequest ==
  /\ fClock' = (fClock + 1) % ClockMod
  /\ requests' = IF fFailed THEN requests ELSE Append(requests, pageNumber)

\* if (data.length < PAGE_SIZE) hasMorePages = false; else pageNumber++;
LastPageOnlyIfEmpty(n) == n = 0
LastPage(n) == n < PageSize

\* the try block shared by fetchAllOrdersForEvent and fetchOrdersForUser
\* for an answer that is not a failure
TakePage(ans) ==
  /\ responses' = Append(responses, IF ans.kind = "notArray" THEN 0 - 1 ELSE ans.size)
  /\ IF ans.kind = "array" /\ ans.size > 0
     THEN /\ allOrders' = allOrders \o Page(pageNumber, ans.size)
          /\ IF LastPage(ans.size)
             THEN /\ fPc' = "done"
                  /\ fResult' = ArrayResult(allOrders')
                  /\ UNCHANGED pageNumber
             ELSE /\ pageNumber' = pageNumber + 1
                  /\ UNCHANGED <<fPc, fResult>>
     ELSE /\ fPc' = "done"
          /\ fResult' = ArrayResult(allOrders)
          /\ UNCHANGED <<allOrders, pageNumber>>
  /\ UNCHANGED fFailed

\* one iteration of the while loop of fetchAllOrdersForEvent;
\* catch (error) { ...; return []; }
FetchOrdersPage(ans) ==
  /\ fKind = "orders"
  /\ fPc = "loop"
  /\ IssueRequest
  /\ IF ans.kind = "fail"
     THEN /\ fFailed' = TRUE
          /\ fPc' = "done"
          /\ fResult' = ArrayResult(<<>>)
          /\ UNCHANGED <<allOrders, pageNumber, responses>>
     ELSE TakePage(ans)
  /\ UNCHANGED fKind

\* one iteration of the while loop of fetchOrdersForUser;
\* catch (error) { ...; hasMorePages = false; return null; }
FetchUserPage(ans) ==
  /\ fKind = "user"
  /\ fPc = "loop"
  /\ IssueRequest
  /\ IF ans.kind = "fail"
     THEN /\ fFailed' = TRUE
          /\ fPc' = "done"
          /\ fResult' = NullResult
          /\ UNCHANGED <<allOrders, pageNumber, responses>>
     ELSE TakePage(ans)
  /\ UNCHANGED fKind

\* one iteration of the while loop of fetchAllTixrEvents; the catch block
\* waits 5 seconds and leaves hasMorePages and pageNumber as they are
FetchEventsPage(ans) ==
  /\ fKind = "events"
  /\ fPc = "loop"
  /\ IssueRequest
  /\ IF ans.kind = "fail"
     THEN /\ fFailed' = TRUE
          /\ UNCHANGED <<fPc, fResult, allOrders, pageNumber, responses>>
     ELSE /\ responses' = Append(responses, IF ans.kind = "notArray" THEN 0 - 1 ELSE ans.size)
          /\ UNCHANGED fFailed
          /\ IF ans.kind = "notArray" \/ ans.size = 0
             THEN /\ fPc' = "done"
                  /\ fResult' = ArrayResult(allOrders)
                  /\ UNCHANGED <<allOrders, pageNumber>>
             ELSE /\ allOrders' = allOrders \o Page(pageNumber, ans.size)
                  /\ IF LastPage(ans.size)
                     THEN /\ fPc' = "done"
                          /\ fResult' = ArrayResult(allOrders')
                          /\ UNCHANGED pageNumber
                     ELSE /\ pageNumber' = pageNumber + 1
                          /\ UNCHANGED <<fPc, fResult>>
  /\ UNCHANGED fKind

(***************************************************************************)
(* Ticket classifiers                                                      *)
(*                                                                         *)
(* A string is a record: absent (null/undefined), upper (written in upper  *)
(* case throughout) and its text.  The text of a category or referral type *)
(* is one of the values below; the text of an item name is the set of      *)
(* keyword phrases it is made of.  String.includes is the substring        *)
(* relation between these phrases and the literals the code looks for.     *)
(***************************************************************************)
\* literals the classifiers and aggregators of the repository search item
\* names for (one spelling of each group of synonyms a rule tests together),
\* and one phrase that holds none of them
NamePhrases ==
  {"VESTIAIRE", "VESTIARE", "COAT CHECK", "COATCHECK",
   "TRANSFERT", "TRANSFE'RE'", "REPORTE'",
   "PROMOTER",
   "BILLET PHYSIQUE", "DOOR TABLE", "PREPAID", "PAY AT THE DOOR", "BUY AT DOOR",
   "DOOR", "GUESTLIST", "GL", "HARD COPY",
   "COMP", "INVITE'", "INVITE", "FAVEUR",
   "BANQUETTE", "STANDARD"}

CategoryTexts ==
  {"GA", "VIP", "OUTLET", "TABLE", "TABLE_SERVICE", "BOTTLE SERVICE", "GUEST",
   "PHOTO", "BOOTH", "SEATED", "MERCH"}

RefTexts == {"BACKSTAGE", "ONLINE"}

\* pairs <<phrase, literal>> where the literal is a proper substring of the phrase
ProperSubstrings ==
  {<<"VESTIAIRE", "VESTIA">>, <<"VESTIARE", "VESTIA">>,
   <<"DOOR TABLE", "DOOR">>, <<"PAY AT THE DOOR", "DOOR">>, <<"BUY AT DOOR", "DOOR">>,
   <<"TABLE_SERVICE", "TABLE">>, <<"TABLE_SERVICE", "SERVICE">>,
   <<"BOTTLE SERVICE", "SERVICE">>}

PhraseContains(phrase, literal) ==
  phrase = literal \/ <<phrase, literal>> \in ProperSubstrings

AbsentStr == [absent |-> TRUE, upper |-> TRUE, text |-> ""]
EmptyStr == [absent |-> FALSE, upper |-> TRUE, text |-> ""]
AbsentName == [absent |-> TRUE, upper |-> TRUE, text |-> {}]
EmptyName == [absent |-> FALSE, upper |-> TRUE, text |-> {}]

\* (x || "")
OrEmpty(x) == IF x.absent \/ x.text = "" THEN EmptyStr ELSE x
OrEmptyName(x) == IF x.absent \/ x.text = {} THEN EmptyName ELSE x

\* String.prototype.toUpperCase
ToUpperCase(x) == [x EXCEPT !.upper = TRUE]

\* str === 'LITERAL' for an upper-case literal
Is(str, literal) == str.upper /\ str.text = literal
\* str.includes('LITERAL') for a category
Includes(str, literal) == str.upper /\ PhraseContains(str.text, literal)
\* name.includes('LITERAL')
NameIncludes(name, literal) ==
  name.upper /\ \E p \in name.text : PhraseContains(p, literal)

\* a gross amount: undefined, NaN (item.total / qty with no total) or a number
AbsentNum == [absent |-> TRUE, nan |-> FALSE, value |-> 0]
NotANumber == [absent |-> FALSE, nan |-> TRUE, value |-> 0]
Num(n) == [absent |-> FALSE, nan |-> FALSE, value |-> n]
\* gross === 0 and gross > 0
IsZero(gross) == ~gross.absent /\ ~gross.nan /\ gross.value = 0
IsPositive(gross) == ~gross.absent /\ ~gross.nan /\ gross.value > 0

ReportingCategories ==
  {"GA_PAID", "VIP_PAID", "COMP_GA", "COMP_VIP", "FREE_GA", "FREE_VIP",
   "DOOR_GA", "DOOR_VIP", "PHYSICAL_GUESTLIST", "PHYSICAL_TABLE_PREPAID",
   "PHYSICAL_TABLE_DOOR", "TABLES_RSVP", "COATCHECK", "TRANSFERRED", "PROMOTER",
   "UNCATEGORIZED"}

\* the physical / door block shared by both classifiers; "" when no rule of
\* the block returns
PhysicalOrDoor(name, category) ==
  IF /\ Includes(category, "TABLE") \/ Includes(category, "SERVICE")
     /\ NameIncludes(name, "BILLET PHYSIQUE") \/ NameIncludes(name, "DOOR TABLE")
     /\ NameIncludes(name, "PREPAID")
     /\ ~NameIncludes(name, "PAY AT THE DOOR")
  THEN "PHYSICAL_TABLE_PREPAID"
  ELSE IF /\ Includes(category, "TABLE") \/ Includes(category, "SERVICE")
          /\ NameIncludes(name, "BILLET PHYSIQUE") \/ NameIncludes(name, "DOOR")
          /\ NameIncludes(name, "PAY AT THE DOOR") \/ NameIncludes(name, "BUY AT DOOR")
          /\ ~NameIncludes(name, "PREPAID")
  THEN "PHYSICAL_TABLE_DOOR"
  ELSE IF /\ Includes(category, "GUEST")
          /\ NameIncludes(name, "GUESTLIST") \/ NameIncludes(name, "GL")
  THEN "PHYSICAL_GUESTLIST"
  ELSE IF /\ Is(category, "GA")
          /\ \/ NameIncludes(name, "BILLET PHYSIQUE")
             \/ NameIncludes(name, "HARD COPY")
             \/ NameIncludes(name, "DOOR")
  THEN "DOOR_GA"
  ELSE IF /\ Is(category, "VIP")
          /\ \/ NameIncludes(name, "BILLET PHYSIQUE")
             \/ NameIncludes(name, "HARD COPY")
             \/ NameIncludes(name, "DOOR")
  THEN "DOOR_VIP"
  ELSE ""

\* the last return of both classifiers
FallbackIsNull == "null"
Fallback == "UNCATEGORIZED"

\* the coat-check override, first rule of both classifiers
CoatcheckRule(name, category) ==
  Is(category, "OUTLET") /\ (NameIncludes(name, "VESTIAIRE") \/ NameIncludes(name, "COAT CHECK"))

\* getReportingCategory(item, refType, gross), src/old/sync-attendance-direct.js
getReportingCategory(item, refType, gross) ==
  LET name == ToUpperCase(OrEmptyName(item.name))
      category == ToUpperCase(OrEmpty(item.category))
      ref == ToUpperCase(OrEmpty(refType))
      isFree == IsZero(gross)
      isPaid == IsPositive(gross)
      isBackstage == Is(ref, "BACKSTAGE")
      physical == PhysicalOrDoor(name, category)
      isComp == \/ NameIncludes(name, "COMP")
                \/ NameIncludes(name, "INVITE'")
                \/ NameIncludes(name, "INVITE")
                \/ NameIncludes(name, "FAVEUR")
                \/ NameIncludes(name, "INVITATION")
                \/ NameIncludes(name, "CONCOURS")
                \/ NameIncludes(name, "GIVEAWAY")
                \/ Is(ref, "BACKSTAGE")
  IN
  IF CoatcheckRule(name, category) THEN "COATCHECK"
  ELSE IF \/ NameIncludes(name, "TRANSFERT")
          \/ NameIncludes(name, "TRANSFE'RE'")
          \/ NameIncludes(name, "TRANSFERE")
          \/ NameIncludes(name, "REPORTE'")
  THEN "TRANSFERRED"
  ELSE IF NameIncludes(name, "PROMOTER") \/ NameIncludes(name, "PROMOTEUR")
  THEN "PROMOTER"
  ELSE IF isBackstage /\ isFree /\ physical # "" THEN physical
  ELSE IF isFree /\ isComp
  THEN (IF Is(category, "VIP") THEN "COMP_VIP" ELSE "COMP_GA")
  ELSE IF isFree /\ ~isBackstage
  THEN (IF Is(category, "VIP") THEN "FREE_VIP" ELSE "FREE_GA")
  ELSE IF \/ Includes(category, "TABLE")
          \/ Includes(category, "BOOTH")
          \/ NameIncludes(name, "BANQUETTE")
          \/ Includes(category, "SEATED")
  THEN "TABLES_RSVP"
  ELSE IF isPaid
  THEN (IF Is(category, "VIP") \/ Is(category, "PHOTO") THEN "VIP_PAID" ELSE "GA_PAID")
  ELSE Fallback

\* parseFloat(item.order_gross || 0)
ParseGross(gross) == IF gross.absent \/ gross.nan THEN Num(0) ELSE gross

\* classifyItem(item), src/verify-classification.js
classifyItem(item) ==
  LET name == ToUpperCase(OrEmptyName(item.order_sales_item_name))
      category == ToUpperCase(OrEmpty(item.order_category))
      refType == ToUpperCase(OrEmpty(item.order_ref_type))
      gross == ParseGross(item.order_gross)
      isFree == IsZero(gross)
      isPaid == IsPositive(gross)
      isBackstage == Is(refType, "BACKSTAGE")
      physical == PhysicalOrDoor(name, category)
      isComp == \/ NameIncludes(name, "COMP")
                \/ NameIncludes(name, "INVITE'")
                \/ NameIncludes(name, "INVITE")
  IN
  IF CoatcheckRule(name, category) THEN "COATCHECK"
  ELSE IF isBackstage /\ isFree /\ physical # "" THEN physical
  ELSE IF isBackstage /\ isFree /\ Is(category, "GA") /\ isComp THEN "COMP_GA"
  ELSE IF isBackstage /\ isFree /\ Is(category, "VIP") /\ isComp THEN "COMP_VIP"
  ELSE IF ~isBackstage /\ isFree /\ (Is(category, "GA") \/ Is(category, "GUEST"))
  THEN "FREE_GA"
  ELSE IF ~isBackstage /\ isFree /\ Is(category, "VIP") THEN "FREE_VIP"
  ELSE IF \/ Includes(category, "TABLE")
          \/ Includes(category, "BOOTH")
          \/ NameIncludes(name, "BANQUETTE")
  THEN "TABLES_RSVP"
  ELSE IF isPaid /\ Is(category, "VIP") THEN "VIP_PAID"
  ELSE IF isPaid /\ Is(category, "GA") THEN "GA_PAID"
  ELSE IF isPaid /\ Is(category, "PHOTO") THEN "VIP_PAID"
  ELSE Fallback

\* the sets of at most k elements of S
RECURSIVE SubsetsUpTo(_, _)
SubsetsUpTo(S, k) ==
  IF k = 0 THEN {{}}
  ELSE LET smaller == SubsetsUpTo(S, k - 1)
       IN smaller \cup {q \cup {x} : q \in smaller, x \in S}

\* the raw strings of an item: written in upper case or not, absent or not
Names(u) ==
  {AbsentName} \cup
  {[absent |-> FALSE, upper |-> u, text |-> ps] : ps \in SubsetsUpTo(NamePhrases, MaxPhrases)}
Strs(u, texts) ==
  {AbsentStr} \cup {[absent |-> FALSE, upper |-> u, text |-> t] : t \in texts}
Grosses == {AbsentNum, NotANumber, Num(0), Num(25), Num(0 - 5)}

NoItem == [name |-> AbsentName, category |-> AbsentStr, ref |-> AbsentStr, gross |-> AbsentNum]

ClsIdle ==
  /\ clsFn = "none"
  /\ clsInput = NoItem
  /\ clsResult = ""

ItemsWritten(u) ==
  {[name |-> n, category |-> c, ref |-> r, gross |-> g] :
     n \in Names(u), c \in Strs(u, CategoryTexts), r \in Strs(u, RefTexts), g \in Grosses}

\* the item handed to a classifier
ClsInit ==
  /\ clsFn = "none"
  /\ \E u \in BOOLEAN : clsInput \in ItemsWritten(u)
  /\ clsResult = ""

\* syncEvent classifies a sale item of an order
ClassifyDirect ==
  /\ clsFn = "none"
  /\ clsResult' = getReportingCategory([name |-> clsInput.name, category |-> clsInput.category],
                                       clsInput.ref, clsInput.gross)
  /\ clsFn' = "getReportingCategory"
  /\ UNCHANGED clsInput

\* runValidation classifies a stored order row
ClassifyStored ==
  /\ clsFn = "none"
  /\ clsResult' = classifyItem([order_sales_item_name |-> clsInput.name,
                                order_category |-> clsInput.category,
                                order_ref_type |-> clsInput.ref,
                                order_gross |-> clsInput.gross])
  /\ clsFn' = "classifyItem"
  /\ UNCHANGED clsInput

(***************************************************************************)
(* processTransactions: the replay of one ticket's transaction log         *)
(***************************************************************************)
\* a transaction without a date field
NoDate == 0 - 1
\* the action field: the three actions the replay recognises besides
\* REENTERED, and one it does not
TransactionActions == {"CHECKED_IN", "REENTERED", "CHECKED_OUT", "VOID", "ISSUED"}
Transactions == [action : TransactionActions, date : {NoDate} \cup (1..MaxDate)]

\* all sequences over S of length at most n
RECURSIVE SeqsUpTo(_, _)
SeqsUpTo(S, n) ==
  IF n = 0 THEN {<<>>}
  ELSE LET shorter == SeqsUpTo(S, n - 1)
       IN shorter \cup {Append(q, x) : q \in {r \in shorter : Len(r) = n - 1}, x \in S}

\* (a.date || 0)
DateOrZero(tx) == IF tx.date = NoDate THEN 0 ELSE tx.date

\* [...transactions].sort((a, b) => (a.date || 0) - (b.date || 0)): a stable
\* sort, transactions of equal date keep the order of the log
RECURSIVE InsertByDate(_, _)
InsertByDate(sorted, tx) ==
  IF sorted = <<>> THEN <<tx>>
  ELSE LET last == sorted[Len(sorted)]
       IN IF DateOrZero(last) <= DateOrZero(tx)
          THEN Append(sorted, tx)
          ELSE Append(InsertByDate(SubSeq(sorted, 1, Len(sorted) - 1), tx), last)

\* the log as the API returned it
LogOrder(log) == log

RECURSIVE SortByDate(_)
SortByDate(log) ==
  IF log = <<>> THEN <<>>
  ELSE InsertByDate(SortByDate(SubSeq(log, 1, Len(log) - 1)), log[Len(log)])

\* if (!firstCheckInTime) firstCheckInTime = transaction.date
OverwriteFirstCheckIn(first, date) == date
SetFirstCheckIn(first, date) == IF first = NoDate THEN date ELSE first

\* one turn of the for loop over the sorted transactions
ApplyTransaction(acc, tx) ==
  IF tx.action = "CHECKED_IN" \/ tx.action = "REENTERED"
  THEN [currentState |-> "CHECKED_IN",
        checkInCount |-> acc.checkInCount + 1,
        firstCheckInTime |-> SetFirstCheckIn(acc.firstCheckInTime, tx.date)]
  ELSE IF tx.action = "CHECKED_OUT" THEN [acc EXCEPT !.currentState = "CHECKED_OUT"]
  ELSE IF tx.action = "VOID" THEN [acc EXCEPT !.currentState = "VOID"]
  ELSE acc

RECURSIVE ReplayFrom(_, _)
ReplayFrom(acc, sorted) ==
  IF sorted = <<>> THEN acc
  ELSE ReplayFrom(ApplyTransaction(acc, Head(sorted)), Tail(sorted))

\* firstCheckInTime ? new Date(firstCheckInTime).toISOString() : null
NullTime == [null |-> TRUE, iso |-> 0]
ToISOString(date) == [null |-> FALSE, iso |-> date]

InHand == [state |-> "IN_HAND", checkInCount |-> 0, firstCheckInTime |-> NullTime]

\* the transactions argument: undefined or an array
NoTransactions == [absent |-> TRUE, log |-> <<>>]
TransactionLogs ==
  {NoTransactions} \cup {[absent |-> FALSE, log |-> l] : l \in SeqsUpTo(Transactions, MaxLog)}

processTransactions(transactions) ==
  IF transactions.absent \/ Len(transactions.log) = 0 THEN InHand
  ELSE LET acc == ReplayFrom([currentState |-> "IN_HAND", checkInCount |-> 0,
                              firstCheckInTime |-> NoDate],
                             SortByDate(transactions.log))
       IN [state |-> acc.currentState,
           checkInCount |-> acc.checkInCount,
           firstCheckInTime |-> IF acc.firstCheckInTime = NoDate THEN NullTime
                                ELSE ToISOString(acc.firstCheckInTime)]

ReplayIdle ==
  /\ rpPc = "done"
  /\ rpInput = NoTransactions
  /\ rpResult = InHand

ReplayInit ==
  /\ rpPc = "call"
  /\ rpInput \in TransactionLogs
  /\ rpResult = InHand

\* aggregateResults and the webhook replay the log fetched for one serial
ProcessTransactions ==
  /\ rpPc = "call"
  /\ rpResult' = processTransactions(rpInput)
  /\ rpPc' = "done"
  /\ UNCHANGED rpInput

(***************************************************************************)
(* aggregateResults: the check-in state of one order row                   *)
(*                                                                         *)
(* The row's order_serials is absent or a list of entries, each blank or a *)
(* serial; an entry carries the outcome of its serial's lookup.            *)
(***************************************************************************)
\* order_checkin_count of a row never synced
NullCount == 0 - 1
\* a field the attendance API left out
NoIns == 0 - 1

\* what the attendance API holds for a ticket: the record served by
\* /attendance/{serial} and the log served by /attendance/{serial}/transactions
Tickets ==
  {[state |-> "IN_HAND", ins |-> 0, first_check_in_date |-> NoDate,
    log |-> <<[action |-> "ISSUED", date |-> 1]>>],
   [state |-> "CHECKED_IN", ins |-> 1, first_check_in_date |-> 1,
    log |-> <<[action |-> "CHECKED_IN", date |-> 1]>>],
   [state |-> "CHECKED_OUT", ins |-> 2, first_check_in_date |-> 2,
    log |-> <<[action |-> "CHECKED_OUT", date |-> 3], [action |-> "REENTERED", date |-> 2],
              [action |-> "CHECKED_IN", date |-> 2]>>],
   [state |-> "", ins |-> NoIns, first_check_in_date |-> NoDate, log |-> <<>>]}

NoTicket == [state |-> "", ins |-> NoIns, first_check_in_date |-> NoDate, log |-> <<>>]

\* the outcome of one lookup: the ticket is served, the API answers 404, or
\* every attempt fails
Outcomes ==
  {[kind |-> "found", ticket |-> t] : t \in Tickets} \cup
  {[kind |-> k, ticket |-> NoTicket] : k \in {"notFound", "failed"}}

BlankEntry == [blank |-> TRUE, outcome |-> [kind |-> "notFound", ticket |-> NoTicket]]
Entries == {BlankEntry} \cup {[blank |-> FALSE, outcome |-> o] : o \in Outcomes}

\* order_checkin_time as stored: null, or an instant in the format the
\* datastore returns or in the ISO format
StoredTimes ==
  {[null |-> TRUE, format |-> "iso", instant |-> 0]} \cup
  [null : {FALSE}, format : {"iso", "timestamptz"}, instant : 1..MaxDate]
\* order_checkin_state as stored: null or a joined string, kept as its tokens
StoredStates ==
  {[null |-> TRUE, tokens |-> <<>>]} \cup
  {[null |-> FALSE, tokens |-> q] : q \in SeqsUpTo({"IN_HAND", "CHECKED_IN"}, MaxRowSerials)}
StoredCounts == {NullCount} \cup (0..MaxRowSerials)

OrderRows(n) ==
  [serialsAbsent : {FALSE}, entries : [1..n -> Entries],
   state : StoredStates, count : StoredCounts, time : StoredTimes]

NoRow ==
  [serialsAbsent |-> TRUE, entries |-> <<>>, state |-> [null |-> TRUE, tokens |-> <<>>],
   count |-> NullCount, time |-> [null |-> TRUE, format |-> "iso", instant |-> 0]]

NoFresh == [skipped |-> TRUE, tokens |-> <<>>, count |-> 0, time |-> NullTime]

\* order.order_serials.split(',').map(s => s.trim()).filter(Boolean)
IsSerial(entry) == ~entry.blank
RowSerials(order) == SelectSeq(order.entries, IsSerial)

\* getAttendanceState: null on 404 and after the last failed attempt
GetAttendanceState(outcome) ==
  IF outcome.kind = "found" THEN [null |-> FALSE, data |-> outcome.ticket]
  ELSE [null |-> TRUE, data |-> NoTicket]

\* getAttendanceTransactions: [] on 404 and after the last failed attempt
GetAttendanceTransactions(outcome) ==
  IF outcome.kind = "found" THEN outcome.ticket.log ELSE <<>>

\* new Date(isoString).getTime()
GetTime(isoTime) == isoTime.iso

\* Math.min(...validDates)
MinOf(dates) == CHOOSE d \in dates : \A e \in dates : d <= e

RECURSIVE SumOf(_)
SumOf(numbers) == IF numbers = <<>> THEN 0 ELSE Head(numbers) + SumOf(Tail(numbers))

\* order.order_checkin_time ? new Date(order.order_checkin_time).toISOString() : null
ExistingTime(order) ==
  IF order.time.null THEN NullTime ELSE ToISOString(order.time.instant)

\* the raw comparison of the stored time with the fresh ISO string
ExistingTimeAsStored(order) ==
  IF order.time.null THEN NullTime
  ELSE IF order.time.format = "iso" THEN ToISOString(order.time.instant)
  ELSE [null |-> FALSE, iso |-> 0 - order.time.instant]

\* the test that guards updatesToApply.push
DiffersRawTime(order, fresh) ==
  \/ order.state.null \/ order.state.tokens # fresh.tokens
  \/ order.count # fresh.count
  \/ ExistingTimeAsStored(order) # fresh.time
Differs(order, fresh) ==
  \/ order.state.null \/ order.state.tokens # fresh.tokens
  \/ order.count # fresh.count
  \/ ExistingTime(order) # fresh.time

\* src/old/old-sync-attendance.js:342-371 and src/unnamed/part_003:141-163:
\* every serial is replayed from its transactions
FreshFromTransactions(order) ==
  LET serials == RowSerials(order)
      serialResults ==
        [i \in DOMAIN serials |->
           processTransactions([absent |-> FALSE,
                                log |-> GetAttendanceTransactions(serials[i].outcome)])]
      validDates == {GetTime(serialResults[i].firstCheckInTime) :
                       i \in {j \in DOMAIN serials : ~serialResults[j].firstCheckInTime.null}}
  IN [skipped |-> FALSE,
      tokens |-> [i \in DOMAIN serials |-> serialResults[i].state],
      count |-> SumOf([i \in DOMAIN serials |-> serialResults[i].checkInCount]),
      time |-> IF validDates = {} THEN NullTime ELSE ToISOString(MinOf(validDates))]

\* src/unnamed/part_000:250-261: serials.map(s => resultsMap.get(s)).filter(Boolean)
HasResult(entry) == ~GetAttendanceState(entry.outcome).null
FreshFromStates(order) ==
  LET orderResults == SelectSeq(RowSerials(order), HasResult)
      data(i) == orderResults[i].outcome.ticket
      validDates == {data(i).first_check_in_date : i \in DOMAIN orderResults} \ {NoDate}
  IN [skipped |-> FALSE,
      tokens |-> [i \in DOMAIN orderResults |->
                    IF data(i).state = "" THEN "UNKNOWN" ELSE data(i).state],
      count |-> SumOf([i \in DOMAIN orderResults |->
                         IF data(i).ins = NoIns THEN 0 ELSE data(i).ins]),
      time |-> IF validDates = {} THEN NullTime ELSE ToISOString(MinOf(validDates))]

\* the serials without attendance are left out of the aggregate
FreshOfServed(order) == FreshFromStates(order)

\* src/old/sync-attendance-direct.js:210-233: a serial without attendance
\* counts as IN_HAND
FreshDirect(order) ==
  LET serials == RowSerials(order)
      attendance(i) == GetAttendanceState(serials[i].outcome)
      dates == {attendance(i).data.first_check_in_date :
                  i \in {j \in DOMAIN serials : ~attendance(j).null}} \ {NoDate}
  IN [skipped |-> FALSE,
      tokens |-> [i \in DOMAIN serials |->
                    IF attendance(i).null \/ attendance(i).data.state = ""
                    THEN "IN_HAND" ELSE attendance(i).data.state],
      count |-> SumOf([i \in DOMAIN serials |->
                         IF attendance(i).null \/ attendance(i).data.ins = NoIns
                         THEN 0 ELSE attendance(i).data.ins]),
      time |-> IF dates = {} THEN NullTime ELSE ToISOString(MinOf(dates))]

AggIdle ==
  /\ agKind = "none"
  /\ agPc = "done"
  /\ agOrder = NoRow
  /\ agFresh = NoFresh
  /\ agWrote = FALSE

AggInit ==
  /\ agKind \in {"states", "transactions", "direct"}
  /\ agPc = "call"
  /\ \/ agOrder = NoRow
     \/ \E n \in 0..MaxRowSerials : agOrder \in OrderRows(n)
  /\ agFresh = NoFresh
  /\ agWrote = FALSE

\* the row is left alone: continue
Skip ==
  /\ agFresh' = NoFresh
  /\ agWrote' = FALSE

\* the fresh values are compared with the row and the update is emitted
Compare(fresh) ==
  /\ agFresh' = fresh
  /\ agWrote' = Differs(agOrder, fresh)

\* one turn of the loop of aggregateResults in src/unnamed/part_000
AggregateStates ==
  /\ agKind = "states"
  /\ agPc = "call"
  /\ IF agOrder.serialsAbsent \/ Len(FreshFromStates(agOrder).tokens) = 0
     THEN Skip
     ELSE Compare(FreshFromStates(agOrder))
  /\ agPc' = "done"
  /\ UNCHANGED <<agKind, agOrder>>

\* one turn of the loop of aggregateResults in src/old/old-sync-attendance.js
AggregateTransactions ==
  /\ agKind = "transactions"
  /\ agPc = "call"
  /\ IF agOrder.serialsAbsent \/ Len(RowSerials(agOrder)) = 0
     THEN Skip
     ELSE Compare(FreshFromTransactions(agOrder))
  /\ agPc' = "done"
  /\ UNCHANGED <<agKind, agOrder>>

\* one turn of the loop of aggregateResults in src/old/sync-attendance-direct.js
AggregateDirect ==
  /\ agKind = "direct"
  /\ agPc = "call"
  /\ IF agOrder.serialsAbsent
     THEN Skip
     ELSE Compare(FreshDirect(agOrder))
  /\ agPc' = "done"
  /\ UNCHANGED <<agKind, agOrder>>

(***************************************************************************)
(* checkForEventChanges: the change-detection reconciler of events         *)
(***************************************************************************)
\* if (eventId < 10000) continue;
CustomIdThreshold == 10000

EventIds == {CustomIdThreshold - 1, CustomIdThreshold, CustomIdThreshold + 1}

\* the columns of a persisted event the reconciler selects, and one it does not
StoredEvent(genre) ==
  [event_name |-> "GALA", event_date |-> 1, event_flyer |-> "", event_status |-> "LIVE",
   event_genre |-> genre]

\* the comparable fields of dbEvent and freshEvent
ComparableFields == {"event_name", "event_date", "event_flyer", "event_status"}

\* what the upstream serves for an event: its id as text, and the fields of
\* the persisted event with some of them changed
ChangedField(field) ==
  IF field = "event_name" THEN "GALA II"
  ELSE IF field = "event_date" THEN 2
  ELSE IF field = "event_flyer" THEN "flyer.png"
  ELSE "PAST"

TixrEvent(eventId, changed) ==
  [id |-> [digits |-> eventId],
   fields |-> [f \in ComparableFields |->
                 IF f \in changed THEN ChangedField(f) ELSE StoredEvent("")[f]]]

TixrEvents ==
  {TixrEvent(i, c) : i \in EventIds,
                     c \in {{}, ComparableFields} \cup {{f} : f \in ComparableFields}}

\* parseInt(tixrEvent.id)
ParseInt(text) == text.digits

\* transformEventForDB(tixrEvent): the row to upsert; the columns the upstream
\* does not serve are written as null
transformEventForDB(tixrEvent) ==
  [event_id |-> ParseInt(tixrEvent.id),
   event_name |-> tixrEvent.fields["event_name"],
   event_date |-> tixrEvent.fields["event_date"],
   event_flyer |-> tixrEvent.fields["event_flyer"],
   event_status |-> tixrEvent.fields["event_status"],
   event_genre |-> ""]

NoChanges == [new |-> <<>>, updated |-> <<>>, removed |-> <<>>, statusChanged |-> <<>>]

ReconcileIdle ==
  /\ rcPc = "done"
  /\ rcDb = <<>>
  /\ rcFresh = <<>>
  /\ rcI = 0
  /\ rcMap = {}
  /\ rcChanges = NoChanges
  /\ rcUpserted = <<>>
  /\ rcDeleted = <<>>

\* dbEvents is read, dbEventsMap is built and fetchAllTixrEvents has returned
ReconcileInit ==
  /\ rcPc = "compare"
  /\ \E ids \in SUBSET EventIds, genre \in {"", "TECHNO"} :
       rcDb = [i \in ids |-> StoredEvent(genre)]
  /\ rcFresh \in SeqsUpTo(TixrEvents, MaxFresh)
  /\ rcI = 0
  /\ rcMap = DOMAIN rcDb
  /\ rcChanges = NoChanges
  /\ rcUpserted = <<>>
  /\ rcDeleted = <<>>

\* hasChanges and statusChanged
HasChanges(dbEvent, freshEvent) ==
  \/ dbEvent.event_name # freshEvent.event_name
  \/ dbEvent.event_date # freshEvent.event_date
  \/ dbEvent.event_flyer # freshEvent.event_flyer
StatusChanged(dbEvent, freshEvent) == dbEvent.event_status # freshEvent.event_status

\* one turn of the loop over tixrEvents
CheckEvent ==
  /\ rcPc = "compare"
  /\ rcI < Len(rcFresh)
  /\ LET tixrEvent == rcFresh[rcI + 1]
         eventId == ParseInt(tixrEvent.id)
         freshEvent == transformEventForDB(tixrEvent)
     IN IF eventId \notin rcMap
        THEN /\ rcChanges' = [rcChanges EXCEPT !.new = Append(@, freshEvent)]
             /\ UNCHANGED rcMap
        ELSE /\ rcChanges' =
                  [rcChanges EXCEPT
                     !.updated = IF HasChanges(rcDb[eventId], freshEvent)
                                    \/ StatusChanged(rcDb[eventId], freshEvent)
                                 THEN Append(@, freshEvent) ELSE @,
                     !.statusChanged = IF StatusChanged(rcDb[eventId], freshEvent)
                                       THEN Append(@, eventId) ELSE @]
             /\ rcMap' = rcMap \ {eventId}
  /\ rcI' = rcI + 1
  /\ UNCHANGED <<rcPc, rcDb, rcFresh, rcUpserted, rcDeleted>>

\* the ids of a set in ascending order: dbEvents is read ordered by event_id
\* and a Map iterates in insertion order
RECURSIVE Ascending(_)
Ascending(ids) ==
  IF ids = {} THEN <<>>
  ELSE LET least == CHOOSE i \in ids : \A j \in ids : i <= j
       IN <<least>> \o Ascending(ids \ {least})

\* if (eventId < 10000) continue;
IsCustomOffByOne(eventId) == eventId < CustomIdThreshold - 1
IsCustom(eventId) == eventId < CustomIdThreshold

NotCustom(eventId) == ~IsCustom(eventId)

\* the loop over the entries left in dbEventsMap
FindRemoved ==
  /\ rcPc = "compare"
  /\ rcI = Len(rcFresh)
  /\ rcChanges' = [rcChanges EXCEPT !.removed = SelectSeq(Ascending(rcMap), NotCustom)]
  /\ rcPc' = "upsert"
  /\ UNCHANGED <<rcDb, rcFresh, rcI, rcMap, rcUpserted, rcDeleted>>

\* eventsToUpsert = [...changes.new, ...changes.updated], upserted in batches
\* (an error of a batch is logged)
ApplyUpserts ==
  /\ rcPc = "upsert"
  /\ rcUpserted' = rcChanges.new \o rcChanges.updated
  /\ rcPc' = "delete"
  /\ UNCHANGED <<rcDb, rcFresh, rcI, rcMap, rcChanges, rcDeleted>>

\* .delete().in("event_id", changes.removed), when changes.removed is not empty
ApplyDeletes ==
  /\ rcPc = "delete"
  /\ rcDeleted' = rcChanges.removed
  /\ rcPc' = "done"
  /\ UNCHANGED <<rcDb, rcFresh, rcI, rcMap, rcChanges, rcUpserted>>

(***************************************************************************)
(* Sales aggregation: syncEventData writes one events_orders row per sale  *)
(* item of an order; syncEventSales and updateEventSalesAggregate read the *)
(* COMPLETE rows of an event and compute the events_sales row              *)
(***************************************************************************)
\* the sale items Tixr reports: a general-admission ticket, a VIP ticket
\* issued as a complimentary one, and a coat-check sale
SaleItems ==
  {[name |-> [absent |-> FALSE, upper |-> FALSE, text |-> {"STANDARD"}],
    category |-> [absent |-> FALSE, upper |-> TRUE, text |-> "GA"], quantity |-> 2],
   [name |-> [absent |-> FALSE, upper |-> FALSE, text |-> {"COMP"}],
    category |-> [absent |-> FALSE, upper |-> TRUE, text |-> "VIP"], quantity |-> 1],
   [name |-> [absent |-> FALSE, upper |-> FALSE, text |-> {"COATCHECK"}],
    category |-> [absent |-> FALSE, upper |-> TRUE, text |-> "OUTLET"], quantity |-> 1]}

\* order.sale_items: one sale item, or two different ones
SaleItemLists ==
  {<<i>> : i \in SaleItems} \cup {q \in SaleItems \X SaleItems : q[1] # q[2]}

OrderStatuses == {"COMPLETE", "REFUNDED"}

\* gross_sales, net and ref_type of an order: a paid online purchase or a
\* free issue from the back office
Payments ==
  {[gross_sales |-> Num(25), net |-> Num(20),
    ref_type |-> [absent |-> FALSE, upper |-> TRUE, text |-> "ONLINE"]],
   [gross_sales |-> Num(0), net |-> Num(0),
    ref_type |-> [absent |-> FALSE, upper |-> TRUE, text |-> "BACKSTAGE"]]}

\* the order with id orderId, as the orders endpoint answers it
TixrOrdersWithId(orderId) ==
  {[order_id |-> orderId, status |-> s, gross_sales |-> p.gross_sales, net |-> p.net,
    ref_type |-> p.ref_type, sale_items |-> items] :
     s \in OrderStatuses, p \in Payments, items \in SaleItemLists}

\* the orders of the event: at most MaxOrders, with ids 1, 2, ...
RECURSIVE TixrOrderLists(_)
TixrOrderLists(n) ==
  IF n = 0 THEN {<<>>}
  ELSE LET shorter == TixrOrderLists(n - 1)
       IN shorter \cup
          {Append(os, o) : os \in {l \in shorter : Len(l) = n - 1}, o \in TixrOrdersWithId(n)}

\* the rows syncEventData makes of one order: one per sale item, each with
\* the gross_sales and net of the whole order
RowsOfOrder(order) ==
  [k \in 1..Len(order.sale_items) |->
     [order_id |-> order.order_id,
      order_sale_id |-> k,
      order_status |-> order.status,
      order_sales_item_name |-> order.sale_items[k].name,
      order_category |-> order.sale_items[k].category,
      order_quantity |-> order.sale_items[k].quantity,
      order_gross |-> order.gross_sales,
      order_net |-> order.net,
      order_ref_type |-> order.ref_type]]

\* rawOrders.flatMap(order => (order.sale_items || []).map(...))
RECURSIVE FlatMapOrders(_)
FlatMapOrders(orders) ==
  IF orders = <<>> THEN <<>>
  ELSE RowsOfOrder(Head(orders)) \o FlatMapOrders(Tail(orders))

\* .eq('order_status', 'COMPLETE')
RECURSIVE CompleteRows(_)
CompleteRows(rows) ==
  IF rows = <<>> THEN <<>>
  ELSE IF Head(rows).order_status = "COMPLETE"
       THEN <<Head(rows)>> \o CompleteRows(Tail(rows))
       ELSE CompleteRows(Tail(rows))

\* .range(page * pageSize, (page + 1) * pageSize - 1), both ends included,
\* counted from 0
RangeOfRows(rows, page) ==
  SubSeq(rows, page * SalesPageSize + 1,
         IF (page + 1) * SalesPageSize < Len(rows) THEN (page + 1) * SalesPageSize ELSE Len(rows))

\* (n || 0) for a gross or net amount
AmountOrZero(n) == IF n.absent \/ n.nan THEN 0 ELSE n.value

\* (order.order_quantity || 0)
QuantityOrZero(o) == o.order_quantity

\* safeUpper(o.order_ref_type) === 'BACKSTAGE'
RefIsBackstage(o) == Is(ToUpperCase(OrEmpty(o.order_ref_type)), "BACKSTAGE")

IsCompleteRow(o) == o.order_status = "COMPLETE"

\* isCoatCheckName
IsCoatCheckName(o) ==
  LET nameUpper == ToUpperCase(OrEmptyName(o.order_sales_item_name))
  IN \/ NameIncludes(nameUpper, "VESTIA")
     \/ NameIncludes(nameUpper, "COAT CHECK")
     \/ NameIncludes(nameUpper, "COATCHECK")

\* the filters of the eight buckets
SalesFilter(bucket, o) ==
  CASE bucket = "sales_total_ga" ->
         Is(o.order_category, "GA") /\ IsPositive(o.order_gross) /\ IsCompleteRow(o)
    [] bucket = "sales_total_vip" ->
         Is(o.order_category, "VIP") /\ IsPositive(o.order_gross) /\ IsCompleteRow(o)
    [] bucket = "sales_total_comp_ga" ->
         /\ Is(o.order_category, "GA") /\ IsZero(o.order_gross) /\ IsCompleteRow(o)
         /\ RefIsBackstage(o)
    [] bucket = "sales_total_comp_vip" ->
         /\ Is(o.order_category, "VIP") /\ IsZero(o.order_gross) /\ IsCompleteRow(o)
         /\ RefIsBackstage(o)
    [] bucket = "sales_total_coatcheck" ->
         /\ Is(o.order_category, "OUTLET") /\ IsPositive(o.order_gross) /\ IsCompleteRow(o)
         /\ IsCoatCheckName(o)
    [] bucket = "sales_total_free_ga" ->
         /\ Is(o.order_category, "GA") /\ IsZero(o.order_gross) /\ IsCompleteRow(o)
         /\ ~RefIsBackstage(o)
    [] bucket = "sales_total_free_vip" ->
         /\ Is(o.order_category, "VIP") /\ IsZero(o.order_gross) /\ IsCompleteRow(o)
         /\ ~RefIsBackstage(o)
    [] bucket = "sales_total_tables" ->
         /\ Is(o.order_category, "TABLE_SERVICE") \/ Is(o.order_category, "TABLE")
         /\ IsPositive(o.order_gross) /\ IsCompleteRow(o)

SalesBuckets ==
  {"sales_total_ga", "sales_total_vip", "sales_total_comp_ga", "sales_total_comp_vip",
   "sales_total_coatcheck", "sales_total_free_ga", "sales_total_free_vip",
   "sales_total_tables"}

\* sumOrderQuantity(allOrders.filter(...)) / sumQty(orders.filter(...))
sumOrderQuantity(orders, bucket) ==
  SumOf([k \in 1..Len(orders) |->
           IF SalesFilter(bucket, orders[k]) THEN QuantityOrZero(orders[k]) ELSE 0])

\* the events_sales row computed from the orders read
SalesData(orders) ==
  [total |-> [b \in SalesBuckets |-> sumOrderQuantity(orders, b)],
   sales_gross |-> SumOf([k \in 1..Len(orders) |-> AmountOrZero(orders[k].order_gross)]),
   sales_net |-> SumOf([k \in 1..Len(orders) |-> AmountOrZero(orders[k].order_net)])]

\* no events_sales row yet
NoSales == [total |-> [b \in SalesBuckets |-> 0 - 1], sales_gross |-> 0 - 1, sales_net |-> 0 - 1]

SalesIdle ==
  /\ slOrders = <<>>
  /\ slRows = <<>>
  /\ slPc = "idle"
  /\ slAllOrders = <<>>
  /\ slPage = 0
  /\ slRuns = 0
  /\ slSales = NoSales
  /\ slPrev = NoSales

SalesInit ==
  /\ slOrders \in TixrOrderLists(MaxOrders)
  /\ slRows = <<>>
  /\ slPc = "orders"
  /\ slAllOrders = <<>>
  /\ slPage = 0
  /\ slRuns = 0
  /\ slSales = NoSales
  /\ slPrev = NoSales

\* syncEventData: the rows of the event's orders are upserted
SyncEventDataRows ==
  /\ slPc = "orders"
  /\ slRows' = FlatMapOrders(slOrders)
  /\ slPc' = "stored"
  /\ UNCHANGED <<slOrders, slAllOrders, slPage, slRuns, slSales, slPrev>>

\* let allOrders = [] at the top of the event's computation
LeftoverAllOrders == slAllOrders
EmptyAllOrders == <<>>

\* syncEventSales starts the computation of the event
StartSyncEventSales ==
  /\ slPc = "stored"
  /\ slRuns < MaxRuns
  /\ slAllOrders' = EmptyAllOrders
  /\ slPage' = 0
  /\ slPc' = "paging"
  /\ UNCHANGED <<slOrders, slRows, slRuns, slSales, slPrev>>

\* one turn of the while (hasMore) loop; a read that fails makes the
\* computation return null, and nothing is written for the event
ReadOrdersPage(failed) ==
  /\ slPc = "paging"
  /\ IF failed
     THEN /\ slPc' = "stored"
          /\ UNCHANGED <<slAllOrders, slPage>>
     ELSE LET orders == RangeOfRows(CompleteRows(slRows), slPage)
          IN IF Len(orders) > 0
             THEN /\ slAllOrders' = slAllOrders \o orders
                  /\ slPage' = slPage + 1
                  /\ slPc' = IF Len(orders) < SalesPageSize THEN "computed" ELSE "paging"
             ELSE /\ slPc' = "computed"
                  /\ UNCHANGED <<slAllOrders, slPage>>
  /\ UNCHANGED <<slOrders, slRows, slRuns, slSales, slPrev>>

\* the record is computed from allOrders and upserted into events_sales
UpsertSalesData ==
  /\ slPc = "computed"
  /\ slPrev' = slSales
  /\ slSales' = SalesData(slAllOrders)
  /\ slRuns' = slRuns + 1
  /\ slPc' = "stored"
  /\ UNCHANGED <<slOrders, slRows, slAllOrders, slPage>>

\* updateEventSalesAggregate: one read of the COMPLETE rows, then the upsert;
\* a read that fails returns before anything is written
UpdateEventSalesAggregate(failed) ==
  /\ slPc = "stored"
  /\ slRuns < MaxRuns
  /\ IF failed
     THEN UNCHANGED <<slRuns, slSales, slPrev>>
     ELSE /\ slPrev' = slSales
          /\ slSales' = SalesData(CompleteRows(slRows))
          /\ slRuns' = slRuns + 1
  /\ UNCHANGED <<slOrders, slRows, slPc, slAllOrders, slPage>>

(***************************************************************************)
(* Webhook endpoints: one request, the response status it gets, and the    *)
(* datastore and Tixr operations the handler performs on the way           *)
(***************************************************************************)
Endpoints == {"event", "order", "eventSigned", "ticket"}

\* a body field: missing, present but falsy ("" or 0), or a value
FieldValues == {"absent", "empty", "value"}
EventActions == {"absent", "UNPUBLISH", "REMOVED", "PUBLISH"}
\* the x-tixr-signature header against the HMAC of the raw body
Signatures == {"none", "valid", "invalid"}

Requests ==
  [endpoint : Endpoints, event_id : FieldValues, order_id : FieldValues,
   serial_id : FieldValues, action : EventActions, signature : Signatures]

NoRequest ==
  [endpoint |-> "none", event_id |-> "absent", order_id |-> "absent",
   serial_id |-> "absent", action |-> "absent", signature |-> "none"]

\* !field
Not(field) == field \in {"absent", "empty"}

\* what a Tixr lookup or a datastore call comes to
Lookups == {"found", "null", "throws"}
DbOutcomes == {"ok", "error", "throws"}

\* the columns of events that a webhook writes or leaves alone
EventColumns == {"event_name", "event_status"}

\* the event has no row; a column nothing was written to is null
AbsentRow == [present |-> FALSE, cols |-> [c \in EventColumns |-> "null"]]

\* the row of the event before the request: none, or one whose status the
\* status job has set
StoredRows ==
  {AbsentRow} \cup
  {[present |-> TRUE, cols |-> [event_name |-> "old", event_status |-> s]] :
     s \in {"LIVE", "PAST"}}

\* the event as Tixr answers it: its name, and on which side of 4 AM after
\* its date the request falls
FreshEvents == [name : {"old", "new"}, status : {"LIVE", "PAST"}]

\* transformEventForDB of the all-in-one server: event_status is left out
WebhookTransformEventForDB(tixrEvent) == [event_name |-> tixrEvent.name]

\* transformEventForDB of the signature-verifying server: event_status is
\* computeEventStatus(eventDate)
SignedTransformEventForDB(tixrEvent) ==
  [event_name |-> tixrEvent.name, event_status |-> tixrEvent.status]

\* upsert(eventForDB, { onConflict: 'event_id' }): the columns of the payload
\* are written, the others keep what the row holds
InsertOrReplace(row, payload) ==
  [present |-> TRUE,
   cols |-> [c \in EventColumns |-> IF c \in DOMAIN payload THEN payload[c] ELSE "null"]]
Upsert(row, payload) ==
  [present |-> TRUE,
   cols |-> [c \in EventColumns |-> IF c \in DOMAIN payload THEN payload[c] ELSE row.cols[c]]]

WebhookIdle ==
  /\ whReq = NoRequest
  /\ whSecret = FALSE
  /\ whPc = "idle"
  /\ whStatus = 0
  /\ whIo = <<>>
  /\ whDb = "none"
  /\ whStored = AbsentRow
  /\ whRow = AbsentRow

WebhookInit ==
  /\ whReq \in Requests
  /\ whSecret \in BOOLEAN
  /\ whPc = "received"
  /\ whStatus = 0
  /\ whIo = <<>>
  /\ whDb = "none"
  /\ whStored \in StoredRows
  /\ whRow = whStored

Respond(status, io, db, row) ==
  /\ whStatus' = status
  /\ whIo' = io
  /\ whDb' = db
  /\ whRow' = row
  /\ whPc' = "responded"
  /\ UNCHANGED <<whReq, whSecret, whStored>>

\* POST /webhook/event behind checkWebhookSecurity
WebhookEvent(lookup, db, fresh) ==
  /\ whPc = "received"
  /\ whReq.endpoint = "event"
  /\ IF Not(whReq.event_id)
     THEN Respond(200, <<>>, "none", whRow)
     ELSE IF whReq.action \in {"UNPUBLISH", "REMOVED"}
     THEN Respond(IF db = "throws" THEN 500 ELSE 200, <<"delete events">>, db,
                  IF db = "ok" THEN AbsentRow ELSE whRow)
     ELSE IF lookup = "throws" THEN Respond(500, <<"get event">>, "none", whRow)
     ELSE IF lookup = "null" THEN Respond(404, <<"get event">>, "none", whRow)
     ELSE Respond(IF db = "throws" THEN 500 ELSE 200, <<"get event", "upsert events">>, db,
                  IF db = "ok" THEN Upsert(whRow, WebhookTransformEventForDB(fresh))
                  ELSE whRow)

\* POST /webhook/order behind checkWebhookSecurity
WebhookOrder(lookup, db, hasUser) ==
  /\ whPc = "received"
  /\ whReq.endpoint = "order"
  /\ IF Not(whReq.order_id)
     THEN Respond(200, <<>>, "none", whRow)
     ELSE IF lookup = "throws" THEN Respond(500, <<"get order">>, "none", whRow)
     ELSE IF lookup = "null" THEN Respond(404, <<"get order">>, "none", whRow)
     ELSE IF db = "throws"
     THEN Respond(500, <<"get order", "upsert events_orders">>, db, whRow)
     ELSE Respond(200,
                  <<"get order", "upsert events_orders">>
                  \o (IF hasUser THEN <<"select events_users", "upsert events_users">>
                      ELSE <<>>)
                  \o <<"select events_orders">>
                  \o (IF db = "error" THEN <<>>
                      ELSE <<"upsert events_sales", "update events">>),
                  db, whRow)

\* verifyWebhookSignature
RejectsSignature ==
  /\ whSecret
  /\ whReq.signature = "invalid"

\* POST /webhook/event behind verifyWebhookSignature
WebhookEventSigned(lookup, db, fresh) ==
  /\ whPc = "received"
  /\ whReq.endpoint = "eventSigned"
  /\ IF RejectsSignature
     THEN Respond(401, <<>>, "none", whRow)
     ELSE IF Not(whReq.event_id) \/ whReq.action = "absent"
     THEN Respond(400, <<>>, "none", whRow)
     ELSE IF whReq.action \in {"UNPUBLISH", "REMOVED"}
     THEN Respond(IF db = "ok" THEN 200 ELSE 500, <<"delete events">>, db,
                  IF db = "ok" THEN AbsentRow ELSE whRow)
     ELSE IF lookup = "throws" THEN Respond(500, <<"get event">>, "none", whRow)
     ELSE IF lookup = "null" THEN Respond(404, <<"get event">>, "none", whRow)
     ELSE Respond(IF db = "ok" THEN 200 ELSE 500, <<"get event", "upsert events">>, db,
                  IF db = "ok" THEN Upsert(whRow, SignedTransformEventForDB(fresh))
                  ELSE whRow)

\* POST /webhook/ticket; found: the serial is in a row of events_orders
WebhookTicket(db, found, differs) ==
  /\ whPc = "received"
  /\ whReq.endpoint = "ticket"
  /\ IF Not(whReq.event_id) \/ Not(whReq.serial_id)
     THEN Respond(200, <<>>, "none", whRow)
     ELSE IF db # "ok" THEN Respond(500, <<"select events_orders">>, db, whRow)
     ELSE IF ~found THEN Respond(200, <<"select events_orders">>, db, whRow)
     ELSE Respond(200,
                  <<"select events_orders", "get attendance">>
                  \o (IF differs THEN <<"update events_orders">> ELSE <<>>),
                  db, whRow)

(***************************************************************************)
(* Signed requests: every call of the Tixr API signs the string            *)
(* basePath?params with HMAC-SHA256 and appends the digest as &hash=       *)
(***************************************************************************)
\* the parameter names the programs use, in the order of Array.prototype.sort
KeyOrder == <<"cpk", "page_number", "page_size", "start_date", "status", "t">>

KeyRank(k) == CHOOSE i \in 1..Len(KeyOrder) : KeyOrder[i] = k

\* values of Date.now(), of a page number and of an event, order, fan or serial id
Times == {0, 1}
PageNumbers == {1, 2}
TixrIds == {1, 2}

\* an object literal: its keys in insertion order and their values
Obj(keys, val) == [keys |-> keys, val |-> val]

\* Object.keys(params)
ObjectKeys(params) == params.keys

\* { ...params, k: v }: a new key goes last, a known key keeps its place
RECURSIVE Spread(_, _)
Spread(params, more) ==
  IF more = <<>> THEN params
  ELSE LET k == Head(more)[1]
           v == Head(more)[2]
           known == \E i \in 1..Len(params.keys) : params.keys[i] = k
       IN Spread([keys |-> IF known THEN params.keys ELSE Append(params.keys, k),
                  val |-> [x \in DOMAIN params.val \cup {k} |->
                             IF x = k THEN v ELSE params.val[x]]],
                 Tail(more))

RECURSIVE InsertKey(_, _)
InsertKey(k, sorted) ==
  IF sorted = <<>> THEN <<k>>
  ELSE IF KeyRank(k) < KeyRank(Head(sorted)) THEN <<k>> \o sorted
       ELSE <<Head(sorted)>> \o InsertKey(k, Tail(sorted))

\* keys.sort()
RECURSIVE SortKeys(_)
SortKeys(keys) ==
  IF keys = <<>> THEN <<>> ELSE InsertKey(Head(keys), SortKeys(Tail(keys)))

\* encodeURIComponent(v)
EncodeURIComponent(v) == [encoded |-> v]

\* keys.map(k => `${k}=${encodeURIComponent(params[k])}`).join('&')
QueryString(params, keys) ==
  [i \in 1..Len(keys) |-> <<keys[i], EncodeURIComponent(params.val[keys[i]])>>]

\* `${basePath}?${paramsSorted}`
HashString(basePath, query) == [path |-> basePath, query |-> query]

\* crypto.createHmac('sha256', secret).update(hashString).digest('hex')
Hmac(hashString) == [hmac |-> hashString]

\* buildHash of sync-orders.js, webhook-server.js and enrich-users.js: the digest
buildHashHex(basePath, paramsObj) ==
  Hmac(HashString(basePath, QueryString(paramsObj, SortKeys(ObjectKeys(paramsObj)))))

\* buildHash of sync-events.js: the sorted parameters and the digest
buildHash(basePath, paramsObj) ==
  LET paramsSorted == QueryString(paramsObj, SortKeys(ObjectKeys(paramsObj)))
  IN [paramsSorted |-> paramsSorted, hash |-> Hmac(HashString(basePath, paramsSorted))]

\* `${basePath}:${paramsObj.t}`
CacheKey(basePath, paramsObj) == <<basePath, paramsObj.val["t"]>>

\* buildHash of the attendance programs: the result cached under basePath and t
buildHashCached(cache, basePath, paramsObj) ==
  IF CacheKey(basePath, paramsObj) \in DOMAIN cache
  THEN cache[CacheKey(basePath, paramsObj)]
  ELSE buildHash(basePath, paramsObj)

\* hashCache.set(cacheKey, result)
CacheSet(cache, key, result) ==
  [k \in DOMAIN cache \cup {key} |-> IF k \in DOMAIN cache THEN cache[k] ELSE result]

\* `${base}${path}?${query}&hash=${hash}`: base is an origin followed by a path
Url(base, path, query, hash) ==
  [origin |-> base.origin, path |-> base.path \o path, query |-> query, hash |-> hash]

\* TIXR_API_BASE_URL, and the literal https://studio.tixr.com
TixrApiBaseUrl == [origin |-> "https://studio.tixr.com", path |-> <<>>]

\* CONFIG.tixrBaseUrl
TixrBaseUrl == [origin |-> "https://studio.tixr.com", path |-> <<"v1">>]

\* TIXR_API_BASE of syncEvent in sync-attendance-direct.js
TixrApiBase == [origin |-> "https://studio.tixr.com", path |-> <<"v1", "groups", "GROUP">>]

\* { cpk: TIXR_CPK, t: Date.now() }
TimeFirstParams(t) == Obj(<<"t", "cpk">>, [k \in {"cpk", "t"} |-> IF k = "t" THEN t ELSE "CPK"])
CpkAndTime(t) == Obj(<<"cpk", "t">>, [k \in {"cpk", "t"} |-> IF k = "t" THEN t ELSE "CPK"])

\* fetchTixrOrderById, fetchTixrEventById of webhook-server.js and fetchFanDetails
\* of enrich-users.js: the URL lists the parameters in the order of the literal
FetchByIdUrl(resource, id, t) ==
  LET basePath == <<"v1", "groups", "GROUP", resource, id>>
      params == CpkAndTime(t)
      hash == buildHashHex(basePath, params)
      paramsString == QueryString(params, ObjectKeys(params))
  IN Url(TixrApiBaseUrl, basePath, paramsString, hash)

\* fetchAllOrdersForEvent of sync-orders.js: sorted for the URL, and again in buildHash
FetchAllOrdersUrl(eventId, page, t) ==
  LET basePath == <<"v1", "groups", "GROUP", "events", eventId, "orders">>
      params == Spread(CpkAndTime(t), <<<<"page_number", page>>, <<"page_size", 100>>,
                                        <<"start_date", "2010-01-01">>>>)
      paramsString == QueryString(params, SortKeys(ObjectKeys(params)))
      hash == buildHashHex(basePath, params)
  IN Url(TixrApiBaseUrl, basePath, paramsString, hash)

\* fetchAllTixrEvents of sync-events.js: the URL takes paramsSorted from buildHash
FetchAllEventsUrl(page, t) ==
  LET basePath == <<"v1", "groups", "GROUP", "events">>
      params == Spread(CpkAndTime(t), <<<<"page_number", page>>, <<"page_size", 100>>>>)
      signed == buildHash(basePath, params)
  IN Url(TixrApiBaseUrl, basePath, signed.paramsSorted, signed.hash)

\* the base path of getAttendanceTransactions (old-sync-attendance.js) and of
\* getAttendanceState (sync-attendance-direct.js)
AttendancePath(eventId, serialNumber, transactions) ==
  <<"v1", "events", eventId, "attendance", serialNumber>>
  \o (IF transactions THEN <<"transactions">> ELSE <<>>)

\* { ...baseHashParams, t }
AttendanceParams(t) == Spread(Obj(<<"cpk">>, [k \in {"cpk"} |-> "CPK"]), <<<<"t", t>>>>)

AttendanceUrl(cache, basePath, t) ==
  LET signed == buildHashCached(cache, basePath, AttendanceParams(t))
  IN Url(TixrApiBaseUrl, basePath, signed.paramsSorted, signed.hash)

\* getSignedUrl of demographic.js, called by fetchTixrPaginated
getSignedUrl(endpointPath, params, t) ==
  LET allParams == Spread(params, <<<<"cpk", "CPK">>, <<"t", t>>>>)
      queryString == QueryString(allParams, SortKeys(ObjectKeys(allParams)))
      hash == Hmac(HashString(<<"v1">> \o endpointPath, queryString))
  IN Url(TixrBaseUrl, endpointPath, queryString, hash)

\* finalParams of fetchTixrPaginated for page
FinalParams(params, page) ==
  Spread(params, <<<<"start_date", "2015-01-01">>, <<"page_size", 1000>>,
                   <<"page_number", page>>>>)

\* the two calls of fetchTixrPaginated: fans without parameters, orders with a status
PaginatedCalls(eventId) ==
  {[endpointPath |-> <<"groups", "GROUP", "events", eventId, "fans">>,
    params |-> Obj(<<>>, <<>>)],
   [endpointPath |-> <<"groups", "GROUP", "events", eventId, "orders">>,
    params |-> Obj(<<"status">>, [k \in {"status"} |-> "COMPLETE"])]}

\* the orders request of syncEvent in sync-attendance-direct.js
DirectOrdersUrl(eventId, page, t) ==
  LET path == <<"events", eventId, "orders">>
      params == Spread(CpkAndTime(t), <<<<"page_number", page>>, <<"page_size", 100>>>>)
      sortedParams == QueryString(params, SortKeys(ObjectKeys(params)))
      hash == Hmac(HashString(<<"v1", "groups", "GROUP">> \o path, sortedParams))
  IN Url(TixrApiBase, path, sortedParams, hash)

SignIdle ==
  /\ sgPc = "idle"
  /\ sgUrl = <<>>
  /\ sgCache = <<>>
  /\ sgCount = 0

SignInit ==
  /\ sgPc = "ready"
  /\ sgUrl = <<>>
  /\ sgCache = <<>>
  /\ sgCount = 0

Send(url) ==
  /\ sgPc = "ready"
  /\ sgUrl' = url
  /\ sgPc' = "sent"
  /\ sgCount' = sgCount + 1

FetchById(resource, id, t) ==
  /\ Send(FetchByIdUrl(resource, id, t))
  /\ UNCHANGED sgCache

FetchAllOrdersPage(eventId, page, t) ==
  /\ Send(FetchAllOrdersUrl(eventId, page, t))
  /\ UNCHANGED sgCache

FetchAllEventsPage(page, t) ==
  /\ Send(FetchAllEventsUrl(page, t))
  /\ UNCHANGED sgCache

GetAttendance(eventId, serialNumber, transactions, t) ==
  LET basePath == AttendancePath(eventId, serialNumber, transactions)
      params == AttendanceParams(t)
  IN /\ Send(AttendanceUrl(sgCache, basePath, t))
     /\ sgCache' = CacheSet(sgCache, CacheKey(basePath, params),
                            buildHashCached(sgCache, basePath, params))

FetchTixrPaginatedPage(call, page, t) ==
  /\ Send(getSignedUrl(call.endpointPath, FinalParams(call.params, page), t))
  /\ UNCHANGED sgCache

DirectOrdersPage(eventId, page, t) ==
  /\ Send(DirectOrdersUrl(eventId, page, t))
  /\ UNCHANGED sgCache

\* the program goes on to its next request
NextRequest ==
  /\ sgPc = "sent"
  /\ sgCount < MaxRequests
  /\ sgPc' = "ready"
  /\ UNCHANGED <<sgUrl, sgCache, sgCount>>

(***************************************************************************)
(* The attendance recap: aggregateResults counts the tickets that are      *)
(* checked in, each in one bucket chosen by the name and category of its   *)
(* order row                                                               *)
(***************************************************************************)
\* the keys recap starts with
RecapKeys(kind) ==
  {"GA", "VIP", "COMP GA", "COMP VIP", "TABLE", "OUTLET",
   "Billet Physique - GA", "Billet Physique - VIP", "Billet Physique - GL",
   "Billet Physique - Table Prepaid", "Billet Physique - Pay at the Door",
   "Coatcheck", "Other"}
  \cup (IF kind = "direct" THEN {"Pre'vente GA", "Pre'vente VIP"} ELSE {})

\* order_sales_item_name of a row: null, or the phrases the name is made of;
\* the phrase COMP - stands at the start of the name
RecapNames ==
  {[null |-> TRUE, text |-> {}]} \cup
  {[null |-> FALSE, text |-> t] :
     t \in {{}, {"STANDARD"}, {"VESTIAIRE"}, {"VESTIARE"}, {"PREPAID COAT CHECK"},
            {"COMP -", "COATCHECK"},
            {"BILLET PHYSIQUE", "TABLE", "PREPAID"}, {"BILLET PHYSIQUE", "PAY AT THE DOOR"},
            {"BILLET PHYSIQUE", "- GL"}, {"BILLET PHYSIQUE", "- VIP"},
            {"BILLET PHYSIQUE", "- GA"}, {"BILLET PHYSIQUE"},
            {"PREVENTE"}, {"PREVENTE", "- VIP"},
            {"COMP -"}, {"COMP -", "- VIP"}, {"COMPLIMENTARY"},
            {"ADMISSION GENERALE"}, {"VIP/LINE-BYPASS"}}}

\* order_category of a row
RecapCategories == {"GA", "VIP", "TABLE_SERVICE", "OUTLET", "GUEST", "null"}

\* pairs <<phrase, literal>> where the literal is a proper substring of the phrase
RecapSubstrings ==
  {<<"PREPAID COAT CHECK", "COAT CHECK">>, <<"PREPAID COAT CHECK", "PREPAID">>,
   <<"- VIP", "VIP">>, <<"VIP/LINE-BYPASS", "VIP">>}

\* itemNameUpper.includes('LITERAL')
RecapIncludes(name, literal) ==
  \E p \in name.text : p = literal \/ <<p, literal>> \in RecapSubstrings

\* what the sync knows of a serial: the state and the number of check-ins of
\* its ticket, or nothing (served = FALSE) when the lookup gave no attendance
RecapTickets ==
  {[served |-> TRUE, state |-> "IN_HAND", ins |-> 0],
   [served |-> TRUE, state |-> "CHECKED_IN", ins |-> 1],
   [served |-> TRUE, state |-> "CHECKED_IN", ins |-> 2],
   [served |-> TRUE, state |-> "CHECKED_OUT", ins |-> 1],
   [served |-> FALSE, state |-> "IN_HAND", ins |-> 0]}

\* the serials of a row
RecapTicketLists ==
  {<<>>} \cup {<<t>> : t \in RecapTickets}
  \cup {<<t, u>> : t \in {x \in RecapTickets : x.state = "CHECKED_IN"}, u \in RecapTickets}

\* the bucket of a checked-in ticket in old-sync-attendance.js
RecapBucketOfTransactions(name, cat) ==
  IF \/ RecapIncludes(name, "VESTIAIRE") \/ RecapIncludes(name, "VESTIARE")
     \/ RecapIncludes(name, "COATCHECK") \/ RecapIncludes(name, "COAT CHECK")
     \/ RecapIncludes(name, "PREPAID COAT CHECK")
  THEN "Coatcheck"
  ELSE IF RecapIncludes(name, "BILLET PHYSIQUE")
  THEN (IF RecapIncludes(name, "TABLE") /\ RecapIncludes(name, "PREPAID")
        THEN "Billet Physique - Table Prepaid"
        ELSE IF RecapIncludes(name, "PAY AT THE DOOR") THEN "Billet Physique - Pay at the Door"
        ELSE IF RecapIncludes(name, "- GL") THEN "Billet Physique - GL"
        ELSE IF RecapIncludes(name, "- VIP") THEN "Billet Physique - VIP"
        ELSE IF RecapIncludes(name, "- GA") THEN "Billet Physique - GA"
        ELSE "Other")
  ELSE IF RecapIncludes(name, "COMP -") \/ RecapIncludes(name, "COMP-")
          \/ RecapIncludes(name, "COMPLIMENTARY")
  THEN (IF RecapIncludes(name, "VIP") \/ cat = "VIP" THEN "COMP VIP" ELSE "COMP GA")
  ELSE IF cat = "GA" THEN "GA"
  ELSE IF cat = "VIP" THEN "VIP"
  ELSE IF cat = "TABLE_SERVICE" \/ cat = "TABLE" THEN "TABLE"
  ELSE IF cat = "OUTLET" THEN "OUTLET"
  ELSE "Other"

\* the bucket of a checked-in ticket in sync-attendance-direct.js
RecapBucketDirect(name, cat) ==
  IF \/ RecapIncludes(name, "VESTIAIRE") \/ RecapIncludes(name, "VESTIARE")
     \/ RecapIncludes(name, "COATCHECK") \/ RecapIncludes(name, "COAT CHECK")
     \/ RecapIncludes(name, "PREPAID COAT CHECK")
  THEN "Coatcheck"
  ELSE IF RecapIncludes(name, "BILLET PHYSIQUE")
  THEN (IF RecapIncludes(name, "TABLE") /\ RecapIncludes(name, "PREPAID")
        THEN "Billet Physique - Table Prepaid"
        ELSE IF RecapIncludes(name, "PAY AT THE DOOR") THEN "Billet Physique - Pay at the Door"
        ELSE IF RecapIncludes(name, "- GL") THEN "Billet Physique - GL"
        ELSE IF RecapIncludes(name, "- VIP") THEN "Billet Physique - VIP"
        ELSE IF RecapIncludes(name, "- GA") THEN "Billet Physique - GA"
        ELSE "Other")
  ELSE IF RecapIncludes(name, "PRE'VENTE") \/ RecapIncludes(name, "PREVENTE")
  THEN (IF RecapIncludes(name, "VIP") \/ cat = "VIP" THEN "Pre'vente VIP" ELSE "Pre'vente GA")
  ELSE IF RecapIncludes(name, "COMP -") \/ RecapIncludes(name, "COMP-")
          \/ RecapIncludes(name, "COMPLIMENTARY")
  THEN (IF RecapIncludes(name, "VIP") \/ cat = "VIP" THEN "COMP VIP" ELSE "COMP GA")
  ELSE IF \/ cat = "GA" \/ RecapIncludes(name, "ADMISSION GE'NE'RALE")
          \/ RecapIncludes(name, "ADMISSION GENERALE")
  THEN "GA"
  ELSE IF cat = "VIP" \/ RecapIncludes(name, "VIP/LINE-BYPASS") THEN "VIP"
  ELSE IF cat = "TABLE_SERVICE" \/ cat = "TABLE" THEN "TABLE"
  ELSE IF cat = "OUTLET" THEN "OUTLET"
  ELSE "Other"

\* const count = 1
UniqueCount(ticket) == 1

\* if (result.state !== 'CHECKED_IN') return;
\* if (!attendance || attendance.state !== 'CHECKED_IN') return;
Counted(ticket) == ticket.served /\ ticket.state = "CHECKED_IN"

\* serials.forEach(...) on one row: recap after the callbacks, or the callback
\* throws at the first counted ticket because itemName.toUpperCase() is called
\* on null (the default '' of the destructuring stands in for undefined only)
RECURSIVE RecapOfRow(_, _, _, _, _)
RecapOfRow(kind, recap, name, cat, tickets) ==
  IF tickets = <<>> THEN [threw |-> FALSE, recap |-> recap]
  ELSE IF ~Counted(Head(tickets)) THEN RecapOfRow(kind, recap, name, cat, Tail(tickets))
  ELSE IF name.null THEN [threw |-> TRUE, recap |-> recap]
  ELSE LET bucket == IF kind = "transactions" THEN RecapBucketOfTransactions(name, cat)
                     ELSE RecapBucketDirect(name, cat)
       IN RecapOfRow(kind, [recap EXCEPT ![bucket] = @ + UniqueCount(Head(tickets))],
                     name, cat, Tail(tickets))

RecapIdle ==
  /\ rcpKind = "none"
  /\ rcpPc = "idle"
  /\ rcpRecap = <<>>
  /\ rcpSeen = 0
  /\ rcpIns = 0
  /\ rcpRows = 0

RecapInit ==
  /\ rcpKind \in {"transactions", "direct"}
  /\ rcpPc = "rows"
  /\ rcpRecap = [k \in RecapKeys(rcpKind) |-> 0]
  /\ rcpSeen = 0
  /\ rcpIns = 0
  /\ rcpRows = 0

\* one turn of for (const order of orders), on a row with serials
RecapRow(name, cat, tickets) ==
  /\ rcpPc = "rows"
  /\ rcpRows < MaxRecapRows
  /\ LET after == RecapOfRow(rcpKind, rcpRecap, name, cat, tickets)
     IN /\ rcpRecap' = after.recap
        /\ rcpPc' = IF after.threw THEN "threw" ELSE "rows"
  /\ rcpSeen' = rcpSeen + Cardinality({i \in DOMAIN tickets : Counted(tickets[i])})
  /\ rcpIns' = rcpIns + SumOf([i \in DOMAIN tickets |->
                                 IF tickets[i].served THEN tickets[i].ins ELSE 0])
  /\ rcpRows' = rcpRows + 1
  /\ UNCHANGED rcpKind

\* return { updatesToApply, finalRecap: recap }
RecapReturn ==
  /\ rcpPc = "rows"
  /\ rcpPc' = "returned"
  /\ UNCHANGED <<rcpKind, rcpRecap, rcpSeen, rcpIns, rcpRows>>

(***************************************************************************)
(* A sync pass: aggregateResults diffs every stored row against the        *)
(* attendance of its serials, batchUpdateOrders writes the differences     *)
(***************************************************************************)
\* the entry of a serial whose ticket the API serves in the given state
ServedEntry(state) ==
  [blank |-> FALSE,
   outcome |-> [kind |-> "found", ticket |-> CHOOSE t \in Tickets : t.state = state]]

\* order_serials of a row with the attendance of its tickets, which stays as
\* it is from pass to pass
PassSerialLists ==
  {<<ServedEntry("IN_HAND")>>, <<ServedEntry("CHECKED_IN")>>,
   <<ServedEntry("IN_HAND"), ServedEntry("IN_HAND")>>,
   <<ServedEntry("CHECKED_IN"), ServedEntry("CHECKED_OUT")>>,
   <<[blank |-> FALSE, outcome |-> [kind |-> "notFound", ticket |-> NoTicket]]>>}

\* a row of events_orders that was never synced
UnsyncedRow(orderId, entries) ==
  [order_id |-> orderId, serialsAbsent |-> FALSE, entries |-> entries,
   state |-> [null |-> TRUE, tokens |-> <<>>], count |-> NullCount,
   time |-> [null |-> TRUE, format |-> "iso", instant |-> 0]]

\* the rows of the event: the k-th belongs to a new order or to the order of
\* an earlier row (an order has one row per sale item)
RECURSIVE PassRowLists(_)
PassRowLists(n) ==
  IF n = 0 THEN {<<>>}
  ELSE LET shorter == PassRowLists(n - 1)
       IN shorter \cup
          {Append(rows, UnsyncedRow(id, entries)) :
             rows \in {l \in shorter : Len(l) = n - 1}, id \in 1..n, entries \in PassSerialLists}

\* updatesToApply.push({ order_id, order_checkin_state, order_checkin_count, order_checkin_time })
UpdateOf(order, fresh) ==
  [order_id |-> order.order_id, order_checkin_state |-> fresh.tokens,
   order_checkin_count |-> fresh.count, order_checkin_time |-> fresh.time]

\* the loop of aggregateResults over the rows from position k on
RECURSIVE UpdatesToApply(_, _)
UpdatesToApply(rows, k) ==
  IF k > Len(rows) THEN <<>>
  ELSE LET order == rows[k]
           fresh == FreshFromTransactions(order)
       IN (IF order.serialsAbsent \/ Len(RowSerials(order)) = 0 \/ ~Differs(order, fresh)
           THEN <<>>
           ELSE <<UpdateOf(order, fresh)>>)
          \o UpdatesToApply(rows, k + 1)

\* the row after .update({...}) of the three check-in columns
WriteRow(row, update) ==
  [row EXCEPT !.state = [null |-> FALSE, tokens |-> update.order_checkin_state],
              !.count = update.order_checkin_count,
              !.time = IF update.order_checkin_time.null
                       THEN [null |-> TRUE, format |-> "iso", instant |-> 0]
                       ELSE [null |-> FALSE, format |-> "timestamptz",
                             instant |-> update.order_checkin_time.iso]]

\* .update({...}).eq('order_id', update.order_id)
UpdateWhereOrderId(rows, update) ==
  [k \in DOMAIN rows |->
     IF rows[k].order_id = update.order_id THEN WriteRow(rows[k], update) ELSE rows[k]]

PassIdle ==
  /\ psRows = <<>>
  /\ psPc = "idle"
  /\ psUpdates = <<>>
  /\ psPending = {}
  /\ psPass = 0

PassInit ==
  /\ psRows \in PassRowLists(MaxPassRows) \ {<<>>}
  /\ psPc = "aggregate"
  /\ psUpdates = <<>>
  /\ psPending = {}
  /\ psPass = 0

\* aggregateResults, then batchUpdateOrders sends the updates of the batch
\* (DB_UPDATE_BATCH_SIZE is 100) without awaiting one before the next
AggregatePass ==
  /\ psPc = "aggregate"
  /\ psPass < MaxPasses
  /\ psUpdates' = UpdatesToApply(psRows, 1)
  /\ psPending' = DOMAIN psUpdates'
  /\ psPass' = psPass + 1
  /\ psPc' = "update"
  /\ UNCHANGED psRows

\* the datastore applies one of the updates in flight
ApplyUpdate(i) ==
  /\ psPc = "update"
  /\ i \in psPending
  /\ psRows' = UpdateWhereOrderId(psRows, psUpdates[i])
  /\ psPending' = psPending \ {i}
  /\ UNCHANGED <<psPc, psUpdates, psPass>>

\* await Promise.all(updatePromises): the pass is over
PassDone ==
  /\ psPc = "update"
  /\ psPending = {}
  /\ psPc' = IF psPass < MaxPasses THEN "aggregate" ELSE "done"
  /\ UNCHANGED <<psRows, psUpdates, psPending, psPass>>

(***************************************************************************)
(* Concurrent order webhooks: two requests to POST /webhook/order are      *)
(* handled on one event loop, and the handlers interleave at every await   *)
(***************************************************************************)
Handlers == {1, 2}
HookEvents == {1, 2}
\* the events the user attended before
OtherEvents == {3}

\* the order of handler h: order h, with one general-admission sale item,
\* in one of the events, bought by the user or without user_id
HookOrders(h) ==
  {[order |-> o, event_id |-> e, hasUser |-> u] :
     o \in {x \in TixrOrdersWithId(h) :
              Len(x.sale_items) = 1 /\ Is(x.sale_items[1].category, "GA")},
     e \in HookEvents, u \in BOOLEAN}

\* the rows of events_orders with event_id = eventId, in order of order_id
RowsOfEvent(rows, eventId) ==
  LET upTo[h \in 0..Cardinality(Handlers)] ==
        IF h = 0 THEN <<>>
        ELSE upTo[h - 1] \o (IF hkOrder[h].event_id = eventId THEN rows[h] ELSE <<>>)
  IN upTo[Cardinality(Handlers)]

\* Array.from(new Set([...existingEvents, fullOrder.event_id]))
UpdatedEvents(existingEvents, eventId) == existingEvents \cup {eventId}

HookIdle ==
  /\ hkOrder = <<>>
  /\ hkPc = <<>>
  /\ hkRows = <<>>
  /\ hkEventIds = {}
  /\ hkHeld = {}
  /\ hkSeen = <<>>
  /\ hkRead = <<>>
  /\ hkSales = <<>>
  /\ hkErr = {}

HookInit ==
  /\ hkOrder \in {f \in [Handlers -> UNION {HookOrders(h) : h \in Handlers}] :
                    \A h \in Handlers : f[h].order.order_id = h}
  /\ hkPc = [h \in Handlers |-> "received"]
  /\ hkRows = [h \in Handlers |-> <<>>]
  /\ hkHeld \in SUBSET OtherEvents
  /\ hkEventIds = hkHeld
  /\ hkSeen = [h \in Handlers |-> {}]
  /\ hkRead = [h \in Handlers |-> <<>>]
  /\ hkSales = [e \in HookEvents |-> NoSales]
  /\ hkErr = {}

\* await fetchTixrOrderById(order_id); without an order the answer is 404
HookFetched(h, found) ==
  /\ hkPc[h] = "received"
  /\ hkPc' = [hkPc EXCEPT ![h] = IF found THEN "fetched" ELSE "done"]
  /\ UNCHANGED <<hkOrder, hkRows, hkEventIds, hkHeld, hkSeen, hkRead, hkSales, hkErr>>

\* await supabase.from('events_orders').upsert(transformedOrders, ...); the
\* answer of the datastore is not read
HookSaveRows(h, dbError) ==
  /\ hkPc[h] = "fetched"
  /\ hkRows' = IF dbError THEN hkRows
               ELSE [hkRows EXCEPT ![h] = RowsOfOrder(hkOrder[h].order)]
  /\ hkErr' = IF dbError THEN hkErr \cup {h} ELSE hkErr
  /\ hkPc' = [hkPc EXCEPT ![h] = IF hkOrder[h].hasUser THEN "saved" ELSE "aggregate"]
  /\ UNCHANGED <<hkOrder, hkEventIds, hkHeld, hkSeen, hkRead, hkSales>>

\* const { data: existingUser } = await ...select('event_ids')...single();
\* existingEvents = existingUser?.event_ids || []
HookReadUser(h, dbError) ==
  /\ hkPc[h] = "saved"
  /\ hkSeen' = [hkSeen EXCEPT ![h] = IF dbError THEN {} ELSE hkEventIds]
  /\ hkErr' = IF dbError THEN hkErr \cup {h} ELSE hkErr
  /\ hkPc' = [hkPc EXCEPT ![h] = "merge"]
  /\ UNCHANGED <<hkOrder, hkRows, hkEventIds, hkHeld, hkRead, hkSales>>

\* await supabase.from('events_users').upsert(userPayload, ...) with
\* event_ids: updatedEvents
HookSaveUser(h, dbError) ==
  /\ hkPc[h] = "merge"
  /\ hkEventIds' = IF dbError THEN hkEventIds
                   ELSE UpdatedEvents(hkSeen[h], hkOrder[h].event_id)
  /\ hkErr' = IF dbError THEN hkErr \cup {h} ELSE hkErr
  /\ hkPc' = [hkPc EXCEPT ![h] = "aggregate"]
  /\ UNCHANGED <<hkOrder, hkRows, hkHeld, hkSeen, hkRead, hkSales>>

\* updateEventSalesAggregate: the select of the COMPLETE rows of the event;
\* with fetchError the function returns
HookReadOrders(h, fetchError) ==
  /\ hkPc[h] = "aggregate"
  /\ hkRead' = IF fetchError THEN hkRead
               ELSE [hkRead EXCEPT ![h] = CompleteRows(RowsOfEvent(hkRows, hkOrder[h].event_id))]
  /\ hkErr' = IF fetchError THEN hkErr \cup {h} ELSE hkErr
  /\ hkPc' = [hkPc EXCEPT ![h] = IF fetchError THEN "done" ELSE "computed"]
  /\ UNCHANGED <<hkOrder, hkRows, hkEventIds, hkHeld, hkSeen, hkSales>>

\* updateEventSalesAggregate: salesData is computed from orders and upserted
\* into events_sales; then the handler answers 200
HookUpsertSales(h, upsertError) ==
  /\ hkPc[h] = "computed"
  /\ hkSales' = IF upsertError THEN hkSales
                ELSE [hkSales EXCEPT ![hkOrder[h].event_id] = SalesData(hkRead[h])]
  /\ hkErr' = IF upsertError THEN hkErr \cup {h} ELSE hkErr
  /\ hkPc' = [hkPc EXCEPT ![h] = "done"]
  /\ UNCHANGED <<hkOrder, hkRows, hkEventIds, hkHeld, hkSeen, hkRead>>

(***************************************************************************)
(* User enrichment: enrichUsers pages through the users never enriched,    *)
(* and processSingleUser enriches one user from the fan profile or, when   *)
(* the fan is not found, from the order history                            *)
(***************************************************************************)
Users == 1..MaxUsers

\* .is('last_enriched_at', null).range(from, from + USERS_PER_BATCH - 1): the
\* rows of the filtered set at positions from..to, in order of user_id
RangeOfUsers(nullUsers, from) ==
  {u \in nullUsers :
     LET position == Cardinality({v \in nullUsers : v < u})
     IN from <= position /\ position <= from + UsersPerBatch - 1}

\* the orders of a fan: COMPLETE or REFUNDED, with or without purchase_date
UserOrders ==
  {[status |-> s, total |-> 10, purchase_date |-> d, quantity |-> 1] :
     s \in OrderStatuses, d \in {0, 5}}

\* what fetchOrdersForUser returns after an error
NullOrders == [null |-> TRUE, list |-> <<>>]
OrderList(orders) == [null |-> FALSE, list |-> orders]

\* Math.max over the purchase dates
MaxOf(numbers) == CHOOSE d \in numbers : \A e \in numbers : d >= e

\* orders.reduce(...): COMPLETE orders only
Calculated(orders) ==
  LET complete == [k \in 1..Len(orders) |-> orders[k].status = "COMPLETE"]
  IN [totalSpend |-> SumOf([k \in 1..Len(orders) |-> IF complete[k] THEN orders[k].total ELSE 0]),
      totalTickets |-> SumOf([k \in 1..Len(orders) |-> IF complete[k] THEN orders[k].quantity ELSE 0]),
      lastPurchase |-> MaxOf({0} \cup {orders[k].purchase_date : k \in {j \in 1..Len(orders) : complete[j]}})]

\* the row of a user: last_enriched_at is "null", "old" or "now"
UserRow(enrichedAt) ==
  [last_enriched_at |-> enrichedAt, user_total_spend |-> 0, user_tickets_purchased |-> 0,
   user_last_purchase |-> 0]

\* userDataToUpsert of the three branches that write; the columns a payload
\* lacks keep their stored values
FanPayload(row) == [row EXCEPT !.last_enriched_at = "now"]
CalculatedPayload(row, calculated) ==
  [row EXCEPT !.user_total_spend = calculated.totalSpend,
              !.user_tickets_purchased = calculated.totalTickets,
              !.user_last_purchase = calculated.lastPurchase,
              !.last_enriched_at = "now"]
NoOrdersPayload(row) == [row EXCEPT !.last_enriched_at = "now"]

\* orders && orders.length > 0
HasOrders(orders) == ~orders.null /\ Len(orders.list) > 0

EnrichIdle ==
  /\ enKind = "idle"
  /\ enPc = "idle"
  /\ enNull = {}
  /\ enStart = {}
  /\ enBatch = 0
  /\ enIds = {}
  /\ enFans = {}
  /\ enFetched = {}
  /\ enFailed = FALSE
  /\ puFan = "none"
  /\ puUpstream = <<>>
  /\ puPage = 1
  /\ puOrders = OrderList(<<>>)
  /\ puStored = UserRow("null")
  /\ puRow = UserRow("null")

EnrichInit ==
  /\ enKind \in {"run", "single"}
  /\ enPc = IF enKind = "run" THEN "count" ELSE "fan"
  /\ enNull \in IF enKind = "run" THEN SUBSET Users ELSE {{}}
  /\ enStart = enNull
  /\ enBatch = 0
  /\ enIds = {}
  /\ enFans = {}
  /\ enFetched = {}
  /\ enFailed = FALSE
  /\ puFan = "none"
  /\ puUpstream \in IF enKind = "single" THEN SeqsUpTo(UserOrders, MaxUserOrders) ELSE {<<>>}
  /\ puPage = 1
  /\ puOrders = OrderList(<<>>)
  /\ puStored \in IF enKind = "single" THEN {UserRow("null"), UserRow("old")} ELSE {UserRow("null")}
  /\ puRow = puStored

runUnchanged == UNCHANGED <<enKind, enStart, puFan, puUpstream, puPage, puOrders, puStored, puRow>>
singleUnchanged == UNCHANGED <<enKind, enNull, enStart, enBatch, enIds, enFans, enFetched, enFailed, puUpstream, puStored>>

\* the count of the users never enriched: the run returns on countError and
\* when the count is 0
EnrichCount(countError) ==
  /\ enKind = "run" /\ enPc = "count"
  /\ enPc' = IF countError \/ Cardinality(enNull) = 0 THEN "done" ELSE "select"
  /\ enFailed' = countError
  /\ UNCHANGED <<enNull, enBatch, enIds, enFans, enFetched>>
  /\ runUnchanged

\* one turn of while (keepProcessing) up to the select of the batch
EnrichSelect(error) ==
  /\ enKind = "run" /\ enPc = "select"
  /\ enBatch' = enBatch + 1
  /\ LET usersToEnrich == RangeOfUsers(enNull, enBatch * UsersPerBatch)
     IN IF error
        THEN /\ enPc' = "done"
             /\ enFailed' = TRUE
             /\ UNCHANGED <<enIds, enFetched>>
        ELSE /\ enPc' = IF usersToEnrich = {} THEN "done" ELSE "fans"
             /\ enIds' = usersToEnrich
             /\ enFetched' = enFetched \cup usersToEnrich
             /\ UNCHANGED enFailed
  /\ UNCHANGED <<enNull, enFans>>
  /\ runUnchanged

\* fanDetails = (await Promise.all(fanPromises)).filter(Boolean):
\* fetchFanDetails returns null for the users whose request failed
EnrichFans(found) ==
  /\ enKind = "run" /\ enPc = "fans"
  /\ found \subseteq enIds
  /\ enFans' = found
  /\ enPc' = "upsert"
  /\ UNCHANGED <<enNull, enBatch, enIds, enFetched, enFailed>>
  /\ runUnchanged

\* the upsert of usersToUpsert with last_enriched_at set; an upsertError is
\* logged and the loop goes on
EnrichUpsert(upsertError) ==
  /\ enKind = "run" /\ enPc = "upsert"
  /\ enNull' = IF upsertError THEN enNull ELSE enNull \ enFans
  /\ enPc' = "select"
  /\ UNCHANGED <<enBatch, enIds, enFans, enFetched, enFailed>>
  /\ runUnchanged

\* processSingleUser: const fanData = await fetchFanDetails(userId)
UserFan(fanData) ==
  /\ enKind = "single" /\ enPc = "fan"
  /\ puFan' = fanData
  /\ enPc' = CASE fanData = "data" -> "upsert"
               [] fanData = "null" -> "orders"
               [] OTHER -> "done"
  /\ puRow' = puRow
  /\ UNCHANGED <<puPage, puOrders>>
  /\ singleUnchanged

\* fetchOrdersForUser: one turn of while (hasMorePages); a request that
\* fails makes the function return null
UserOrdersPage(failed) ==
  /\ enKind = "single" /\ enPc = "orders"
  /\ LET first == (puPage - 1) * PageSize + 1
         last == IF puPage * PageSize < Len(puUpstream) THEN puPage * PageSize
                 ELSE Len(puUpstream)
         data == SubSeq(puUpstream, first, last)
     IN IF failed
        THEN /\ puOrders' = NullOrders
             /\ enPc' = "upsert"
             /\ UNCHANGED puPage
        ELSE IF Len(data) > 0
             THEN /\ puOrders' = OrderList(puOrders.list \o data)
                  /\ IF Len(data) < PageSize
                     THEN enPc' = "upsert" /\ UNCHANGED puPage
                     ELSE enPc' = "orders" /\ puPage' = puPage + 1
             ELSE /\ enPc' = "upsert"
                  /\ UNCHANGED <<puPage, puOrders>>
  /\ UNCHANGED <<puFan, puRow>>
  /\ singleUnchanged

\* processSingleUser: userDataToUpsert of the branch taken is upserted; an
\* error of the upsert is counted
UserUpsert(error) ==
  /\ enKind = "single" /\ enPc = "upsert"
  /\ puRow' = IF error THEN puRow
              ELSE IF puFan = "data" THEN FanPayload(puRow)
              ELSE IF HasOrders(puOrders) THEN CalculatedPayload(puRow, Calculated(puOrders.list))
              ELSE NoOrdersPayload(puRow)
  /\ enPc' = "done"
  /\ UNCHANGED <<puFan, puPage, puOrders>>
  /\ singleUnchanged

(***************************************************************************)
(* One run of check-changes against the datastore: fetchAllTixrEvents      *)
(* pages through the upstream list, then checkForEventChanges upserts the  *)
(* new and updated events and deletes the removed ones                     *)
(***************************************************************************)
\* event_order_updated and event_attendance_updated of a persisted event
Markers == {"null", "2025-06-01T04:00:00.000Z"}

\* a persisted event with its two sync markers
StoredEventRow(marker) ==
  [event_name |-> StoredEvent("").event_name,
   event_date |-> StoredEvent("").event_date,
   event_flyer |-> StoredEvent("").event_flyer,
   event_status |-> StoredEvent("").event_status,
   event_order_updated |-> marker,
   event_attendance_updated |-> marker]

\* the row transformEventForDB returns, with its two marker columns
FreshEventRow(tixrEvent) ==
  [event_name |-> transformEventForDB(tixrEvent).event_name,
   event_date |-> transformEventForDB(tixrEvent).event_date,
   event_flyer |-> transformEventForDB(tixrEvent).event_flyer,
   event_status |-> transformEventForDB(tixrEvent).event_status,
   event_order_updated |-> "null",
   event_attendance_updated |-> "null"]

\* the upstream lists of events: any of the ids, in ascending order, each
\* with the persisted fields or with another name
UpstreamLists ==
  {events \in SeqsUpTo({TixrEvent(i, c) : i \in EventIds, c \in {{}, {"event_name"}}},
                       Cardinality(EventIds)) :
     \A k \in 1..(Len(events) - 1) : ParseInt(events[k].id) < ParseInt(events[k + 1].id)}

\* the ids of a list of upstream events
TixrIdsOf(events) == {ParseInt(events[k].id) : k \in DOMAIN events}

\* the event of a list with the given id
TixrEventWithId(events, eventId) ==
  events[CHOOSE k \in DOMAIN events : ParseInt(events[k].id) = eventId]

\* the page of the upstream list the endpoint serves for page_number
EventsPage(events, page) ==
  SubSeq(events, (page - 1) * PageSize + 1,
         IF page * PageSize < Len(events) THEN page * PageSize ELSE Len(events))

\* the persisted events handed to upsert: changes.updated
UpdatedIds(db, tixrEvents) ==
  {i \in DOMAIN db \cap TixrIdsOf(tixrEvents) :
     LET freshEvent == transformEventForDB(TixrEventWithId(tixrEvents, i))
     IN HasChanges(db[i], freshEvent) \/ StatusChanged(db[i], freshEvent)}

\* the events handed to upsert: changes.new
NewIds(db, tixrEvents) == TixrIdsOf(tixrEvents) \ DOMAIN db

\* changes.removed: the persisted events left in dbEventsMap, custom ones excepted
RemovedIds(db, tixrEvents) ==
  {i \in DOMAIN db \ TixrIdsOf(tixrEvents) : ~IsCustom(i)}

ChangesIdle ==
  /\ ccUpstream = <<>>
  /\ ccStored = <<>>
  /\ ccDb = <<>>
  /\ ccPc = "idle"
  /\ ccPage = 1
  /\ ccAll = <<>>
  /\ ccRetried = FALSE
  /\ ccRemoved = {}

\* dbEvents is read and fetchAllTixrEvents is called
ChangesInit ==
  /\ ccUpstream \in UpstreamLists
  /\ \E ids \in SUBSET EventIds, marker \in Markers :
       ccStored = [i \in ids |-> StoredEventRow(marker)]
  /\ ccDb = ccStored
  /\ ccPc = "fetch"
  /\ ccPage = 1
  /\ ccAll = <<>>
  /\ ccRetried = FALSE
  /\ ccRemoved = {}

\* fetchAllTixrEvents: one turn of while (hasMorePages). The response is the
\* page of the list, an empty array or a body that is no array; a request
\* that throws is retried after 5 seconds
FetchEventsTurn(response) ==
  /\ ccPc = "fetch"
  /\ IF response = "throws"
     THEN /\ ccRetried' = TRUE
          /\ UNCHANGED <<ccPc, ccPage, ccAll>>
     ELSE LET data == IF response = "page" THEN EventsPage(ccUpstream, ccPage) ELSE <<>>
          IN /\ IF response = "notArray" \/ Len(data) = 0
                THEN /\ ccPc' = "compare"
                     /\ UNCHANGED <<ccPage, ccAll>>
                ELSE /\ ccAll' = ccAll \o data
                     /\ IF Len(data) < PageSize
                        THEN ccPc' = "compare" /\ UNCHANGED ccPage
                        ELSE ccPc' = "fetch" /\ ccPage' = ccPage + 1
             /\ UNCHANGED ccRetried
  /\ UNCHANGED <<ccUpstream, ccStored, ccDb, ccRemoved>>

\* the loops over tixrEvents and over dbEventsMap, and the upsert of
\* [...changes.new, ...changes.updated]; an error of the upsert is logged
UpsertChanges(error) ==
  /\ ccPc = "compare"
  /\ ccRemoved' = RemovedIds(ccDb, ccAll)
  /\ ccDb' = IF error THEN ccDb
             ELSE [i \in DOMAIN ccDb \cup NewIds(ccDb, ccAll) |->
                     IF i \in NewIds(ccDb, ccAll) \cup UpdatedIds(ccDb, ccAll)
                     THEN FreshEventRow(TixrEventWithId(ccAll, i))
                     ELSE ccDb[i]]
  /\ ccPc' = "delete"
  /\ UNCHANGED <<ccUpstream, ccStored, ccPage, ccAll, ccRetried>>

\* .delete().in("event_id", changes.removed) when changes.removed is not
\* empty; an error of the delete is logged
DeleteRemoved(error) ==
  /\ ccPc = "delete"
  /\ ccDb' = IF error THEN ccDb ELSE [i \in DOMAIN ccDb \ ccRemoved |-> ccDb[i]]
  /\ ccPc' = "done"
  /\ UNCHANGED <<ccUpstream, ccStored, ccPage, ccAll, ccRetried, ccRemoved>>

(***************************************************************************)
(* Specification of the two bounded executors                              *)
(***************************************************************************)
InitBounded == LimiterInit /\ ChunkInit /\ SyncIdle /\ FetchIdle /\ ClsIdle /\ ReplayIdle /\ AggIdle /\ ReconcileIdle /\ SalesIdle /\ WebhookIdle /\ SignIdle /\ RecapIdle /\ PassIdle /\ HookIdle /\ EnrichIdle /\ ChangesIdle

NextBounded ==
  \/ \E t \in Tasks : Execute(t) /\ UNCHANGED <<chunkVars, syncVars, fetchVars, clsVars, rpVars, agVars, rcVars, slVars, whVars, sgVars, rcpVars, psVars, hkVars, enVars, ccVars>>
  \/ Resume /\ UNCHANGED <<chunkVars, syncVars, fetchVars, clsVars, rpVars, agVars, rcVars, slVars, whVars, sgVars, rcpVars, psVars, hkVars, enVars, ccVars>>
  \/ \E t \in Tasks, o \in {"ok", "throw"} : Finish(t, o) /\ UNCHANGED <<chunkVars, syncVars, fetchVars, clsVars, rpVars, agVars, rcVars, slVars, whVars, sgVars, rcpVars, psVars, hkVars, enVars, ccVars>>
  \/ ChunkStartBatch /\ UNCHANGED <<limVars, syncVars, fetchVars, clsVars, rpVars, agVars, rcVars, slVars, whVars, sgVars, rcpVars, psVars, hkVars, enVars, ccVars>>
  \/ \E s \in Serials : ChunkSettle(s) /\ UNCHANGED <<limVars, syncVars, fetchVars, clsVars, rpVars, agVars, rcVars, slVars, whVars, sgVars, rcpVars, psVars, hkVars, enVars, ccVars>>
  \/ ChunkBatchDone /\ UNCHANGED <<limVars, syncVars, fetchVars, clsVars, rpVars, agVars, rcVars, slVars, whVars, sgVars, rcpVars, psVars, hkVars, enVars, ccVars>>
  \/ ChunkReturn /\ UNCHANGED <<limVars, syncVars, fetchVars, clsVars, rpVars, agVars, rcVars, slVars, whVars, sgVars, rcpVars, psVars, hkVars, enVars, ccVars>>

SpecBounded == InitBounded /\ [][NextBounded]_vars

\* C1: at every instant at most maxConcurrent Limiter tasks, and at most
\* ApiConcurrencyLimit attendance lookups, have started and not finished.
C1_ConcurrencyBound ==
  /\ Cardinality(InFlight) <= maxConcurrent
  /\ Cardinality(chunkInFlight) <= ApiConcurrencyLimit

\* the ceiling is reached by a task that had to wait while a later caller is
\* still parked, and a full batch after the first is in flight
C1_Witness ==
  /\ maxConcurrent > 1
  /\ Cardinality(InFlight) = maxConcurrent
  /\ queue # <<>>
  /\ \E t \in waited : taskPc[t] = "running"
  /\ Cardinality(chunkInFlight) = ApiConcurrencyLimit
  /\ chunkI > 0

(***************************************************************************)
(* Specification of the Limiter alone.  A started task eventually settles  *)
(* and the microtask queue is always drained, hence the weak fairness.     *)
(***************************************************************************)
InitLimiter == LimiterInit /\ ChunkInit /\ SyncIdle /\ FetchIdle /\ ClsIdle /\ ReplayIdle /\ AggIdle /\ ReconcileIdle /\ SalesIdle /\ WebhookIdle /\ SignIdle /\ RecapIdle /\ PassIdle /\ HookIdle /\ EnrichIdle /\ ChangesIdle

NextLimiter ==
  \/ \E t \in Tasks : Execute(t) /\ UNCHANGED <<chunkVars, syncVars, fetchVars, clsVars, rpVars, agVars, rcVars, slVars, whVars, sgVars, rcpVars, psVars, hkVars, enVars, ccVars>>
  \/ Resume /\ UNCHANGED <<chunkVars, syncVars, fetchVars, clsVars, rpVars, agVars, rcVars, slVars, whVars, sgVars, rcpVars, psVars, hkVars, enVars, ccVars>>
  \/ \E t \in Tasks, o \in {"ok", "throw"} : Finish(t, o) /\ UNCHANGED <<chunkVars, syncVars, fetchVars, clsVars, rpVars, agVars, rcVars, slVars, whVars, sgVars, rcpVars, psVars, hkVars, enVars, ccVars>>

FairSpecLimiter ==
  /\ InitLimiter
  /\ [][NextLimiter]_vars
  /\ WF_vars(Resume /\ UNCHANGED <<chunkVars, syncVars, fetchVars, clsVars, rpVars, agVars, rcVars, slVars, whVars, sgVars, rcpVars, psVars, hkVars, enVars, ccVars>>)
  /\ \A t \in Tasks : WF_vars(\E o \in {"ok", "throw"} : Finish(t, o) /\ UNCHANGED <<chunkVars, syncVars, fetchVars, clsVars, rpVars, agVars, rcVars, slVars, whVars, sgVars, rcpVars, psVars, hkVars, enVars, ccVars>>)

\* C2: provided every started task settles, every execute() call that had to
\* wait (parked in the queue, or woken and not yet resumed) eventually starts,
\* also when tasks throw.
C2_EveryWaiterStarts ==
  \A t \in Tasks : (taskPc[t] \in {"queued", "woken"}) ~> Started(t)

\* a waiter was released by a task that threw, and has started
C2_Witness ==
  \E t, u \in Tasks :
    /\ taskPc[t] = "failed"
    /\ u \in waited
    /\ u > t
    /\ Started(u)
    /\ \A v \in Tasks : v # t => taskPc[v] # "done" /\ taskPc[v] # "failed"

\* C3: waiters are admitted in FIFO order: of two tasks that both had to
\* wait, the one that called execute() first starts first.
C3_FifoAdmission ==
  \A a, b \in Tasks :
    (a < b /\ a \in waited /\ b \in waited /\ Started(b)) => Started(a)

(***************************************************************************)
(* Specification of runFullSync                                            *)
(***************************************************************************)
InitSync == LimiterInit /\ ChunkInit /\ SyncInit /\ FetchIdle /\ ClsIdle /\ ReplayIdle /\ AggIdle /\ ReconcileIdle /\ SalesIdle /\ WebhookIdle /\ SignIdle /\ RecapIdle /\ PassIdle /\ HookIdle /\ EnrichIdle /\ ChangesIdle

NextSync ==
  \/ \E t \in Tasks : SyncSubmit(t) /\ UNCHANGED <<chunkVars, fetchVars, clsVars, rpVars, agVars, rcVars, slVars, whVars, sgVars, rcpVars, psVars, hkVars, enVars, ccVars>>
  \/ SyncResume /\ UNCHANGED <<chunkVars, fetchVars, clsVars, rpVars, agVars, rcVars, slVars, whVars, sgVars, rcpVars, psVars, hkVars, enVars, ccVars>>
  \/ \E t \in Tasks, o \in {"ok", "throw"} : SyncTransformed(t, o) /\ UNCHANGED <<chunkVars, fetchVars, clsVars, rpVars, agVars, rcVars, slVars, whVars, sgVars, rcpVars, psVars, hkVars, enVars, ccVars>>
  \/ \E t \in Tasks, e \in BOOLEAN : SyncOrdersSaved(t, e) /\ UNCHANGED <<chunkVars, fetchVars, clsVars, rpVars, agVars, rcVars, slVars, whVars, sgVars, rcpVars, psVars, hkVars, enVars, ccVars>>
  \/ \E t \in Tasks : SyncMarked(t) /\ UNCHANGED <<chunkVars, fetchVars, clsVars, rpVars, agVars, rcVars, slVars, whVars, sgVars, rcpVars, psVars, hkVars, enVars, ccVars>>
  \/ SyncExit /\ UNCHANGED <<chunkVars, fetchVars, clsVars, rpVars, agVars, rcVars, slVars, whVars, sgVars, rcpVars, psVars, hkVars, enVars, ccVars>>
  \/ \E e \in BOOLEAN : SyncConsolidate(e) /\ UNCHANGED <<chunkVars, fetchVars, clsVars, rpVars, agVars, rcVars, slVars, whVars, sgVars, rcpVars, psVars, hkVars, enVars, ccVars>>

SpecSync == InitSync /\ [][NextSync]_vars

\* C4: when the run is over, every event whose own task did not fail has run
\* to completion and its results were consolidated and saved.
C4_SiblingsNotAborted ==
  runPc \in {"finished", "exited"} =>
    \A t \in Tasks :
      taskPc[t] # "failed" => taskPc[t] = "done" /\ (usersSaveError \/ t \in usersSaved)

(***************************************************************************)
(* Specification of the paginated fetchers                                 *)
(***************************************************************************)
InitFetch == LimiterIdle /\ ChunkInit /\ SyncIdle /\ FetchInit /\ ClsIdle /\ ReplayIdle /\ AggIdle /\ ReconcileIdle /\ SalesIdle /\ WebhookIdle /\ SignIdle /\ RecapIdle /\ PassIdle /\ HookIdle /\ EnrichIdle /\ ChangesIdle

NextFetch ==
  \/ \E a \in Answers : FetchOrdersPage(a) /\ UNCHANGED <<limVars, chunkVars, syncVars, clsVars, rpVars, agVars, rcVars, slVars, whVars, sgVars, rcpVars, psVars, hkVars, enVars, ccVars>>
  \/ \E a \in Answers : FetchUserPage(a) /\ UNCHANGED <<limVars, chunkVars, syncVars, clsVars, rpVars, agVars, rcVars, slVars, whVars, sgVars, rcpVars, psVars, hkVars, enVars, ccVars>>
  \/ \E a \in Answers : FetchEventsPage(a) /\ UNCHANGED <<limVars, chunkVars, syncVars, clsVars, rpVars, agVars, rcVars, slVars, whVars, sgVars, rcpVars, psVars, hkVars, enVars, ccVars>>

\* every loop iteration completes: each request is answered or times out
FairSpecFetch ==
  /\ InitFetch
  /\ [][NextFetch]_vars
  /\ WF_vars(\E a \in Answers : FetchOrdersPage(a) /\ UNCHANGED <<limVars, chunkVars, syncVars, clsVars, rpVars, agVars, rcVars, slVars, whVars, sgVars, rcpVars, psVars, hkVars, enVars, ccVars>>)
  /\ WF_vars(\E a \in Answers : FetchUserPage(a) /\ UNCHANGED <<limVars, chunkVars, syncVars, clsVars, rpVars, agVars, rcVars, slVars, whVars, sgVars, rcpVars, psVars, hkVars, enVars, ccVars>>)
  /\ WF_vars(\E a \in Answers : FetchEventsPage(a) /\ UNCHANGED <<limVars, chunkVars, syncVars, clsVars, rpVars, agVars, rcVars, slVars, whVars, sgVars, rcpVars, psVars, hkVars, enVars, ccVars>>)

\* the concatenation of the first k answered pages
RECURSIVE ConcatPages(_, _)
ConcatPages(sizes, k) ==
  IF k = 0 THEN <<>> ELSE ConcatPages(sizes, k - 1) \o Page(k, sizes[k])

OnlySuccessfulPages ==
  /\ fKind # "none"
  /\ ~fFailed
  /\ \A i \in 1..Len(responses) : responses[i] >= 0

\* C5: while every request is answered with an array, the fetch requests pages
\* 1, 2, ... in order, goes on only after full pages, stops at the first empty
\* or short page k without a further request, and returns the concatenation
\* of pages 1..k.
C5_PaginationContract ==
  OnlySuccessfulPages =>
    /\ requests = [i \in 1..Len(requests) |-> i]
    /\ fPc = "loop" =>
         /\ Len(requests) = Len(responses)
         /\ pageNumber = Len(responses) + 1
         /\ \A i \in 1..Len(responses) : responses[i] = PageSize
    /\ fPc = "done" =>
         LET k == Len(responses) IN
         /\ k >= 1
         /\ Len(requests) = k
         /\ responses[k] < PageSize
         /\ \A i \in 1..(k - 1) : responses[i] = PageSize
         /\ fResult = ArrayResult(ConcatPages(responses, k))

\* pages of sizes [PageSize, PageSize, 1]: 3 requests, 2 * PageSize + 1 records
C5_Witness ==
  /\ fKind = "orders"
  /\ fPc = "done"
  /\ responses = <<PageSize, PageSize, 1>>
  /\ requests = <<1, 2, 3>>
  /\ fResult.tag = "array"
  /\ Len(fResult.value) = 2 * PageSize + 1

\* C6: the event-list fetch terminates, whatever the API answers.
C6_EventsFetchTerminates == (fKind = "events") ~> (fPc = "done")

\* C7: a failed order fetch either returns the records accumulated so far or
\* signals the failure, and never looks like a successful fetch of no orders.
C7_FailureNotSilent ==
  (fKind = "orders" /\ fPc = "done" /\ fFailed) =>
    /\ fResult.tag # "array" \/ fResult = ArrayResult(allOrders)
    /\ fResult # ArrayResult(<<>>)

(***************************************************************************)
(* Specification of the classifiers                                        *)
(***************************************************************************)
InitClassify == LimiterIdle /\ ChunkInit /\ SyncIdle /\ FetchIdle /\ ClsInit /\ ReplayIdle /\ AggIdle /\ ReconcileIdle /\ SalesIdle /\ WebhookIdle /\ SignIdle /\ RecapIdle /\ PassIdle /\ HookIdle /\ EnrichIdle /\ ChangesIdle

NextClassify ==
  \/ ClassifyDirect /\ UNCHANGED <<limVars, chunkVars, syncVars, fetchVars, rpVars, agVars, rcVars, slVars, whVars, sgVars, rcpVars, psVars, hkVars, enVars, ccVars>>
  \/ ClassifyStored /\ UNCHANGED <<limVars, chunkVars, syncVars, fetchVars, rpVars, agVars, rcVars, slVars, whVars, sgVars, rcpVars, psVars, hkVars, enVars, ccVars>>

SpecClassify == InitClassify /\ [][NextClassify]_vars

\* C8: whatever the item, absent fields included, each classifier returns one
\* of the 16 reporting categories.
C8_ClassifierTotal ==
  clsFn # "none" => clsResult \in ReportingCategories

\* an item without name, category, referral type and gross fell through to
\* the fallback
C8_Witness ==
  /\ clsFn = "getReportingCategory"
  /\ clsInput = NoItem
  /\ clsResult = "UNCATEGORIZED"

\* C9: once classified, an OUTLET item whose name contains VESTIA or COAT CHECK
\* is COATCHECK, whatever its gross amount, referral type and other tokens.
C9_CoatcheckOverride ==
  (/\ clsFn # "none"
   /\ Is(ToUpperCase(OrEmpty(clsInput.category)), "OUTLET")
   /\ \/ NameIncludes(ToUpperCase(OrEmptyName(clsInput.name)), "VESTIA")
      \/ NameIncludes(ToUpperCase(OrEmptyName(clsInput.name)), "COAT CHECK"))
  => clsResult = "COATCHECK"

\* the normalised name of the item handed to the classifier
ClsName == ToUpperCase(OrEmptyName(clsInput.name))

\* the name holds a transfer, promoter or comp/invite token of the code
TransferToken ==
  \/ NameIncludes(ClsName, "TRANSFERT") \/ NameIncludes(ClsName, "TRANSFE'RE'")
  \/ NameIncludes(ClsName, "TRANSFERE") \/ NameIncludes(ClsName, "REPORTE'")
PromoterToken == NameIncludes(ClsName, "PROMOTER") \/ NameIncludes(ClsName, "PROMOTEUR")
CompToken ==
  \/ NameIncludes(ClsName, "COMP") \/ NameIncludes(ClsName, "INVITE'")
  \/ NameIncludes(ClsName, "INVITE") \/ NameIncludes(ClsName, "FAVEUR")
  \/ NameIncludes(ClsName, "INVITATION") \/ NameIncludes(ClsName, "CONCOURS")
  \/ NameIncludes(ClsName, "GIVEAWAY")

\* the coat-check rule takes the item
ClsCoatcheck == CoatcheckRule(ClsName, ToUpperCase(OrEmpty(clsInput.category)))

\* C24: once classified, an item the coat-check rule does not take and whose
\* name holds a transfer token is TRANSFERRED, whatever its category, referral
\* type, gross amount and other tokens; with a promoter token and no transfer
\* token it is PROMOTER.
C24_TransferThenPromoter ==
  (clsFn # "none" /\ ~ClsCoatcheck) =>
    /\ TransferToken => clsResult = "TRANSFERRED"
    /\ (PromoterToken /\ ~TransferToken) => clsResult = "PROMOTER"

\* C25: once classified, an item with gross 0 that the coat-check, transfer,
\* promoter and physical/door rules do not take is COMP_VIP (category VIP) or
\* COMP_GA (otherwise) when its name holds a comp/invite token or its referral
\* type is BACKSTAGE, and FREE_VIP or FREE_GA otherwise.
C25_CompOrFree ==
  LET category == ToUpperCase(OrEmpty(clsInput.category))
      isBackstage == Is(ToUpperCase(OrEmpty(clsInput.ref)), "BACKSTAGE")
      isVip == Is(category, "VIP")
  IN (/\ clsFn # "none"
      /\ IsZero(clsInput.gross)
      /\ ~ClsCoatcheck /\ ~TransferToken /\ ~PromoterToken
      /\ ~(isBackstage /\ PhysicalOrDoor(ClsName, category) # ""))
     => clsResult = IF CompToken \/ isBackstage
                    THEN (IF isVip THEN "COMP_VIP" ELSE "COMP_GA")
                    ELSE (IF isVip THEN "FREE_VIP" ELSE "FREE_GA")

\* the item with every absent field replaced by its default: gross 0, and the
\* empty string for name, category and referral type
WithDefaults(item) ==
  [name |-> IF item.name.absent THEN [item.name EXCEPT !.absent = FALSE, !.text = {}]
            ELSE item.name,
   category |-> IF item.category.absent THEN [item.category EXCEPT !.absent = FALSE, !.text = ""]
                ELSE item.category,
   ref |-> IF item.ref.absent THEN [item.ref EXCEPT !.absent = FALSE, !.text = ""]
           ELSE item.ref,
   gross |-> IF item.gross.absent \/ item.gross.nan THEN Num(0) ELSE item.gross]

\* what the classifier that ran returns for item
ResultFor(item) ==
  IF clsFn = "getReportingCategory"
  THEN getReportingCategory([name |-> item.name, category |-> item.category],
                            item.ref, item.gross)
  ELSE classifyItem([order_sales_item_name |-> item.name, order_category |-> item.category,
                     order_ref_type |-> item.ref, order_gross |-> item.gross])

\* C26: once classified, an item with an absent gross amount has the category
\* of the same item with gross 0, and an item with an absent name, category
\* or referral type the category of the same item with the empty string.
C26_AbsentAsDefault ==
  clsFn # "none" => clsResult = ResultFor(WithDefaults(clsInput))

(***************************************************************************)
(* Specification of the transaction replay                                 *)
(***************************************************************************)
InitReplay == LimiterIdle /\ ChunkInit /\ SyncIdle /\ FetchIdle /\ ClsIdle /\ ReplayInit /\ AggIdle /\ ReconcileIdle /\ SalesIdle /\ WebhookIdle /\ SignIdle /\ RecapIdle /\ PassIdle /\ HookIdle /\ EnrichIdle /\ ChangesIdle

NextReplay ==
  ProcessTransactions /\ UNCHANGED <<limVars, chunkVars, syncVars, fetchVars, clsVars, agVars, rcVars, slVars, whVars, sgVars, rcpVars, psVars, hkVars, enVars, ccVars>>

SpecReplay == InitReplay /\ [][NextReplay]_vars

\* C10: the replay counts the CHECKED_IN and REENTERED transactions of the log,
\* ends in the state set by the recognised transaction that is last by date
\* (by position in the log among equal dates, undated transactions first), and
\* reports the smallest date carried by a CHECKED_IN or REENTERED transaction.
C10_ReplayResult ==
  rpPc = "done" =>
    LET log == rpInput.log
        key(i) == IF log[i].date = NoDate THEN 0 ELSE log[i].date
        checkIns == {i \in DOMAIN log : log[i].action \in {"CHECKED_IN", "REENTERED"}}
        recognised == checkIns \cup {i \in DOMAIN log : log[i].action \in {"CHECKED_OUT", "VOID"}}
        before(i, j) == key(i) < key(j) \/ (key(i) = key(j) /\ i < j)
        dated == {log[i].date : i \in checkIns} \ {NoDate}
    IN /\ rpResult.checkInCount = Cardinality(checkIns)
       /\ \/ recognised = {} /\ rpResult.state = "IN_HAND"
          \/ \E i \in recognised :
               /\ \A j \in recognised \ {i} : before(j, i)
               /\ rpResult.state = (IF i \in checkIns THEN "CHECKED_IN" ELSE log[i].action)
       /\ \/ dated = {} /\ rpResult.firstCheckInTime = NullTime
          \/ \E d \in dated :
               /\ \A e \in dated : d <= e
               /\ rpResult.firstCheckInTime = ToISOString(d)

\* the log [CHECKED_IN@1, CHECKED_OUT@2, REENTERED@3] replayed
C10_Witness ==
  /\ rpPc = "done"
  /\ rpInput.log = <<[action |-> "CHECKED_IN", date |-> 1],
                     [action |-> "CHECKED_OUT", date |-> 2],
                     [action |-> "REENTERED", date |-> 3]>>
  /\ rpResult = [state |-> "CHECKED_IN", checkInCount |-> 2,
                 firstCheckInTime |-> ToISOString(1)]

\* C11: a log that holds a VOID transaction replays to the state VOID,
\* whatever transactions come after the VOID in date order.
C11_VoidTerminal ==
  (/\ rpPc = "done"
   /\ \E i \in DOMAIN rpInput.log : rpInput.log[i].action = "VOID")
  => rpResult.state = "VOID"

\* the orders in which the API can return the transactions of log
Reorderings(log) ==
  {[i \in 1..Len(log) |-> log[p[i]]] : p \in Permutations(1..Len(log))}

\* every transaction of log has a date, and no two have the same
DistinctDates(log) ==
  /\ \A i \in 1..Len(log) : log[i].date # NoDate
  /\ \A i, j \in 1..Len(log) : i # j => log[i].date # log[j].date

\* C27: the replay of a log whose transactions have distinct dates gives the
\* same state, count and first check-in time for every order in which the
\* transactions are listed.
C27_OrderOfLogIrrelevant ==
  (rpPc = "done" /\ ~rpInput.absent /\ DistinctDates(rpInput.log)) =>
    \A l \in Reorderings(rpInput.log) :
      processTransactions([absent |-> FALSE, log |-> l]) = rpResult

\* a log listed against date order, [CHECKED_OUT@3, CHECKED_IN@1, REENTERED@2],
\* replayed to CHECKED_OUT after two check-ins
C27_Witness ==
  /\ rpPc = "done"
  /\ rpInput.log = <<[action |-> "CHECKED_OUT", date |-> 3],
                     [action |-> "CHECKED_IN", date |-> 1],
                     [action |-> "REENTERED", date |-> 2]>>
  /\ rpResult = [state |-> "CHECKED_OUT", checkInCount |-> 2,
                 firstCheckInTime |-> ToISOString(1)]

(***************************************************************************)
(* Specification of the attendance aggregators                             *)
(***************************************************************************)
InitAggregate ==
  LimiterIdle /\ ChunkInit /\ SyncIdle /\ FetchIdle /\ ClsIdle /\ ReplayIdle /\ AggInit /\ ReconcileIdle /\ SalesIdle /\ WebhookIdle /\ SignIdle /\ RecapIdle /\ PassIdle /\ HookIdle /\ EnrichIdle /\ ChangesIdle

NextAggregate ==
  \/ AggregateStates /\ UNCHANGED <<limVars, chunkVars, syncVars, fetchVars, clsVars, rpVars, rcVars, slVars, whVars, sgVars, rcpVars, psVars, hkVars, enVars, ccVars>>
  \/ AggregateTransactions /\ UNCHANGED <<limVars, chunkVars, syncVars, fetchVars, clsVars, rpVars, rcVars, slVars, whVars, sgVars, rcpVars, psVars, hkVars, enVars, ccVars>>
  \/ AggregateDirect /\ UNCHANGED <<limVars, chunkVars, syncVars, fetchVars, clsVars, rpVars, rcVars, slVars, whVars, sgVars, rcpVars, psVars, hkVars, enVars, ccVars>>

SpecAggregate == InitAggregate /\ [][NextAggregate]_vars

\* C12: a row that is not skipped gets an update exactly when its stored
\* state string, its stored count or the instant of its stored check-in time
\* differs from the fresh value; a skipped row gets none.
C12_WriteIffDiffers ==
  agPc = "done" =>
    IF agFresh.skipped THEN ~agWrote
    ELSE agWrote <=>
           \/ agOrder.state.null
           \/ agOrder.state.tokens # agFresh.tokens
           \/ agOrder.count # agFresh.count
           \/ agOrder.time.null # agFresh.time.null
           \/ ~agOrder.time.null /\ agOrder.time.instant # agFresh.time.iso

\* a row whose stored time is written in the datastore's format and whose
\* three values equal the fresh ones was compared and left alone
C12_Witness ==
  /\ agPc = "done"
  /\ agKind = "transactions"
  /\ ~agFresh.skipped
  /\ agFresh.count > 0
  /\ ~agOrder.time.null
  /\ agOrder.time.format = "timestamptz"
  /\ ~agWrote

\* C13: the joined state of a row that is not skipped has one token per serial
\* of the row, the token of a served ticket standing at its serial's place.
C13_TokenPerSerial ==
  (agPc = "done" /\ ~agFresh.skipped) =>
    LET serials == RowSerials(agOrder)
    IN /\ Len(agFresh.tokens) = Len(serials)
       /\ \A i \in DOMAIN serials :
            (serials[i].outcome.kind = "found" /\ serials[i].outcome.ticket.state # "")
            => agFresh.tokens[i] = serials[i].outcome.ticket.state

\* the lookup of the serial answered 404
NotFound(entry) == entry.outcome.kind = "notFound"
Answered(entry) == ~NotFound(entry)

\* the aggregate of the row by the code that ran
FreshOf(order) ==
  IF agKind = "transactions" THEN FreshFromTransactions(order) ELSE FreshDirect(order)

\* C28: in the transaction-replay and direct-state syncs, a serial whose lookup
\* answers 404 stands as IN_HAND in the joined state of its row and adds
\* nothing to the row's check-in count and first check-in time, which are those
\* of the row without the serial; the row is aggregated all the same.
C28_NotFoundIsNoHistory ==
  (/\ agPc = "done"
   /\ agKind \in {"transactions", "direct"}
   /\ ~agOrder.serialsAbsent
   /\ \E i \in DOMAIN RowSerials(agOrder) : NotFound(RowSerials(agOrder)[i]))
  => LET serials == RowSerials(agOrder)
         others == FreshOf([agOrder EXCEPT !.entries = SelectSeq(serials, Answered)])
     IN /\ ~agFresh.skipped
        /\ Len(agFresh.tokens) = Len(serials)
        /\ \A i \in DOMAIN serials : NotFound(serials[i]) => agFresh.tokens[i] = "IN_HAND"
        /\ agFresh.count = others.count
        /\ agFresh.time = others.time

\* a row of two serials, the first answered 404 and the second a ticket that
\* checked in twice and out again, aggregated by the direct-state sync
C28_Witness ==
  /\ agPc = "done"
  /\ agKind = "direct"
  /\ ~agOrder.serialsAbsent
  /\ Len(agOrder.entries) = 2
  /\ ~agOrder.entries[1].blank /\ NotFound(agOrder.entries[1])
  /\ ~agOrder.entries[2].blank /\ agOrder.entries[2].outcome.kind = "found"
  /\ agFresh.tokens = <<"IN_HAND", "CHECKED_OUT">>
  /\ agFresh.count = 2
  /\ agFresh.time = ToISOString(2)

(***************************************************************************)
(* Specification of the change-detection reconciler                        *)
(***************************************************************************)
InitReconcile ==
  LimiterIdle /\ ChunkInit /\ SyncIdle /\ FetchIdle /\ ClsIdle /\ ReplayIdle /\ AggIdle
  /\ ReconcileInit /\ SalesIdle /\ WebhookIdle /\ SignIdle /\ RecapIdle /\ PassIdle /\ HookIdle /\ EnrichIdle /\ ChangesIdle

NextReconcile ==
  \/ CheckEvent /\ UNCHANGED <<limVars, chunkVars, syncVars, fetchVars, clsVars, rpVars, agVars, slVars, whVars, sgVars, rcpVars, psVars, hkVars, enVars, ccVars>>
  \/ FindRemoved /\ UNCHANGED <<limVars, chunkVars, syncVars, fetchVars, clsVars, rpVars, agVars, slVars, whVars, sgVars, rcpVars, psVars, hkVars, enVars, ccVars>>
  \/ ApplyUpserts /\ UNCHANGED <<limVars, chunkVars, syncVars, fetchVars, clsVars, rpVars, agVars, slVars, whVars, sgVars, rcpVars, psVars, hkVars, enVars, ccVars>>
  \/ ApplyDeletes /\ UNCHANGED <<limVars, chunkVars, syncVars, fetchVars, clsVars, rpVars, agVars, slVars, whVars, sgVars, rcpVars, psVars, hkVars, enVars, ccVars>>

SpecReconcile == InitReconcile /\ [][NextReconcile]_vars

\* the ids of the events of a sequence
IdsOf(events) == {events[k].event_id : k \in DOMAIN events}

\* C14: no persisted event whose id is below the custom-ID threshold is ever in
\* changes.removed or handed to delete.
C14_CustomEventsKept ==
  \A k \in DOMAIN rcChanges.removed \cup DOMAIN rcDeleted :
     /\ k \in DOMAIN rcChanges.removed => rcChanges.removed[k] >= CustomIdThreshold
     /\ k \in DOMAIN rcDeleted => rcDeleted[k] >= CustomIdThreshold

\* a persisted custom event absent from the fresh fetch survived a run that
\* deleted another event
C14_Witness ==
  /\ rcPc = "done"
  /\ (CustomIdThreshold - 1) \in DOMAIN rcDb
  /\ \A k \in DOMAIN rcFresh : ParseInt(rcFresh[k].id) # CustomIdThreshold - 1
  /\ rcDeleted # <<>>

\* C15: changes.new holds only events whose id is not persisted, and no id twice.
C15_NewOnlyUnknownOnce ==
  /\ \A k \in DOMAIN rcChanges.new : rcChanges.new[k].event_id \notin DOMAIN rcDb
  /\ \A k, l \in DOMAIN rcChanges.new :
       rcChanges.new[k].event_id = rcChanges.new[l].event_id => k = l

\* C16: once the run is over, a persisted event of the fresh fetch is in
\* changes.updated exactly when a comparable field of it differs from the stored
\* one, and an event whose comparable fields all equal the stored ones is not
\* handed to upsert.
C16_UpdatedIffDiffers ==
  rcPc = "done" =>
    \A k \in DOMAIN rcFresh :
      LET eventId == ParseInt(rcFresh[k].id)
          differs(l) == \E f \in ComparableFields :
                          rcFresh[l].fields[f] # StoredEvent("")[f]
          same == {l \in DOMAIN rcFresh : ParseInt(rcFresh[l].id) = eventId}
      IN eventId \in DOMAIN rcDb =>
           /\ eventId \in IdsOf(rcChanges.updated) <=> \E l \in same : differs(l)
           /\ (\A l \in same : ~differs(l)) => eventId \notin IdsOf(rcUpserted)

(***************************************************************************)
(* Specification of the sales aggregation of one event                     *)
(***************************************************************************)
InitSales ==
  LimiterIdle /\ ChunkInit /\ SyncIdle /\ FetchIdle /\ ClsIdle /\ ReplayIdle /\ AggIdle
  /\ ReconcileIdle /\ SalesInit /\ WebhookIdle /\ SignIdle /\ RecapIdle /\ PassIdle /\ HookIdle /\ EnrichIdle /\ ChangesIdle

NextSales ==
  \/ SyncEventDataRows /\ UNCHANGED <<limVars, chunkVars, syncVars, fetchVars, clsVars, rpVars, agVars, rcVars, whVars, sgVars, rcpVars, psVars, hkVars, enVars, ccVars>>
  \/ StartSyncEventSales /\ UNCHANGED <<limVars, chunkVars, syncVars, fetchVars, clsVars, rpVars, agVars, rcVars, whVars, sgVars, rcpVars, psVars, hkVars, enVars, ccVars>>
  \/ \E failed \in BOOLEAN : ReadOrdersPage(failed) /\ UNCHANGED <<limVars, chunkVars, syncVars, fetchVars, clsVars, rpVars, agVars, rcVars, whVars, sgVars, rcpVars, psVars, hkVars, enVars, ccVars>>
  \/ UpsertSalesData /\ UNCHANGED <<limVars, chunkVars, syncVars, fetchVars, clsVars, rpVars, agVars, rcVars, whVars, sgVars, rcpVars, psVars, hkVars, enVars, ccVars>>
  \/ \E failed \in BOOLEAN : UpdateEventSalesAggregate(failed) /\ UNCHANGED <<limVars, chunkVars, syncVars, fetchVars, clsVars, rpVars, agVars, rcVars, whVars, sgVars, rcpVars, psVars, hkVars, enVars, ccVars>>

SpecSales == InitSales /\ [][NextSales]_vars

BucketCategory(bucket) ==
  CASE bucket = "sales_total_ga" -> "GA_PAID"
    [] bucket = "sales_total_vip" -> "VIP_PAID"
    [] bucket = "sales_total_comp_ga" -> "COMP_GA"
    [] bucket = "sales_total_comp_vip" -> "COMP_VIP"
    [] bucket = "sales_total_coatcheck" -> "COATCHECK"
    [] bucket = "sales_total_free_ga" -> "FREE_GA"
    [] bucket = "sales_total_free_vip" -> "FREE_VIP"
    [] bucket = "sales_total_tables" -> "TABLES_RSVP"

\* the category either classifier gives a stored row
CategoryOfRow(o, direct) ==
  IF direct
  THEN getReportingCategory([name |-> o.order_sales_item_name, category |-> o.order_category],
                            o.order_ref_type, o.order_gross)
  ELSE classifyItem(o)

\* the summed quantity of the COMPLETE rows a classifier puts in a category
QuantityClassified(rows, category, direct) ==
  LET complete == CompleteRows(rows)
  IN SumOf([k \in 1..Len(complete) |->
              IF CategoryOfRow(complete[k], direct) = category
              THEN complete[k].order_quantity ELSE 0])

\* C18: every bucket total of the events_sales row written is the summed
\* quantity of the COMPLETE rows that a classifier (classifyItem or
\* getReportingCategory) assigns to the bucket's reporting category
C18_BucketsMatchClassifier ==
  slRuns >= 1 =>
    \A b \in SalesBuckets :
      \E direct \in BOOLEAN :
        slSales.total[b] = QuantityClassified(slRows, BucketCategory(b), direct)

\* the sum of an amount over the COMPLETE orders of the event, each once
RECURSIVE SumOverCompleteOrders(_, _)
SumOverCompleteOrders(orders, net) ==
  IF orders = <<>> THEN 0
  ELSE (IF Head(orders).status = "COMPLETE"
        THEN AmountOrZero(IF net THEN Head(orders).net ELSE Head(orders).gross_sales)
        ELSE 0)
       + SumOverCompleteOrders(Tail(orders), net)

\* C19: sales_gross and sales_net of the events_sales row written are the
\* sums of gross_sales and net over the COMPLETE orders of the event, each
\* order counted once whatever the number of its sale items
C19_GrossNetOncePerOrder ==
  slRuns >= 1 =>
    /\ slSales.sales_gross = SumOverCompleteOrders(slOrders, FALSE)
    /\ slSales.sales_net = SumOverCompleteOrders(slOrders, TRUE)

(***************************************************************************)
(* Specification of the webhook endpoints                                  *)
(***************************************************************************)
InitWebhook ==
  LimiterIdle /\ ChunkInit /\ SyncIdle /\ FetchIdle /\ ClsIdle /\ ReplayIdle /\ AggIdle
  /\ ReconcileIdle /\ SalesIdle /\ WebhookInit /\ SignIdle /\ RecapIdle /\ PassIdle /\ HookIdle /\ EnrichIdle /\ ChangesIdle

NextWebhook ==
  \/ \E l \in Lookups, d \in DbOutcomes, e \in FreshEvents : WebhookEvent(l, d, e) /\ UNCHANGED <<limVars, chunkVars, syncVars, fetchVars, clsVars, rpVars, agVars, rcVars, slVars, sgVars, rcpVars, psVars, hkVars, enVars, ccVars>>
  \/ \E l \in Lookups, d \in DbOutcomes, u \in BOOLEAN : WebhookOrder(l, d, u) /\ UNCHANGED <<limVars, chunkVars, syncVars, fetchVars, clsVars, rpVars, agVars, rcVars, slVars, sgVars, rcpVars, psVars, hkVars, enVars, ccVars>>
  \/ \E l \in Lookups, d \in DbOutcomes, e \in FreshEvents : WebhookEventSigned(l, d, e) /\ UNCHANGED <<limVars, chunkVars, syncVars, fetchVars, clsVars, rpVars, agVars, rcVars, slVars, sgVars, rcpVars, psVars, hkVars, enVars, ccVars>>
  \/ \E d \in DbOutcomes, found \in BOOLEAN, differs \in BOOLEAN : WebhookTicket(d, found, differs) /\ UNCHANGED <<limVars, chunkVars, syncVars, fetchVars, clsVars, rpVars, agVars, rcVars, slVars, sgVars, rcpVars, psVars, hkVars, enVars, ccVars>>

SpecWebhook == InitWebhook /\ [][NextWebhook]_vars

\* the body of the request has no identifier for its endpoint
LacksIdentifier ==
  CASE whReq.endpoint \in {"event", "eventSigned"} -> whReq.event_id = "absent"
    [] whReq.endpoint = "order" -> whReq.order_id = "absent"
    [] whReq.endpoint = "ticket" -> whReq.event_id = "absent" \/ whReq.serial_id = "absent"
    [] OTHER -> FALSE

\* C20: a request whose body lacks the identifier of its endpoint is answered
\* with status 200, and the handler reads and writes nothing in the
\* datastore and calls nothing at Tixr
C20_MissingIdentifierIgnored ==
  (whPc = "responded" /\ LacksIdentifier) => (whStatus = 200 /\ whIo = <<>>)

\* C21: when an event webhook has called the datastore (delete or upsert),
\* it answers 200 only if the call succeeded, and 500 if the datastore
\* reported an error
C21_StatusReflectsDatastore ==
  (whPc = "responded" /\ whReq.endpoint \in {"event", "eventSigned"} /\ whDb # "none") =>
    /\ whStatus = 200 => whDb = "ok"
    /\ whDb # "ok" => whStatus = 500

\* C22 as stated: after any event webhook of the all-in-one server, an event
\* that had a row still has it, with the event_status it had before the
\* request
C22_StatusNeverChanged ==
  (whPc = "responded" /\ whReq.endpoint = "event") =>
    (whStored.present =>
       (whRow.present /\ whRow.cols["event_status"] = whStored.cols["event_status"]))

\* C22 amended: after an event webhook of the all-in-one server whose action
\* is neither UNPUBLISH nor REMOVED, the event_status of the event is what it
\* was before the request (null for an event that had no row)
C22_StatusKeptByUpsert ==
  (whPc = "responded" /\ whReq.endpoint = "event"
   /\ whReq.action \notin {"UNPUBLISH", "REMOVED"}) =>
    whRow.cols["event_status"] = whStored.cols["event_status"]

\* the event had a row with a status, the upsert went through and changed
\* its name
C22_Witness ==
  /\ whPc = "responded"
  /\ whReq.endpoint = "event"
  /\ whReq.action \notin {"UNPUBLISH", "REMOVED"}
  /\ whStored.present
  /\ whDb = "ok"
  /\ whIo = <<"get event", "upsert events">>
  /\ whRow.cols["event_name"] # whStored.cols["event_name"]
  /\ whRow.cols["event_status"] = "PAST"

(***************************************************************************)
(* Specification of the signed requests                                    *)
(***************************************************************************)
InitSign == LimiterIdle /\ ChunkInit /\ SyncIdle /\ FetchIdle /\ ClsIdle /\ ReplayIdle /\ AggIdle /\ ReconcileIdle /\ SalesIdle /\ WebhookIdle /\ SignInit /\ RecapIdle /\ PassIdle /\ HookIdle /\ EnrichIdle /\ ChangesIdle

NextSign ==
  \/ \E r \in {"orders", "events", "fans"}, id \in TixrIds, t \in Times :
       FetchById(r, id, t) /\ UNCHANGED <<limVars, chunkVars, syncVars, fetchVars, clsVars, rpVars, agVars, rcVars, slVars, whVars, rcpVars, psVars, hkVars, enVars, ccVars>>
  \/ \E e \in TixrIds, p \in PageNumbers, t \in Times :
       FetchAllOrdersPage(e, p, t) /\ UNCHANGED <<limVars, chunkVars, syncVars, fetchVars, clsVars, rpVars, agVars, rcVars, slVars, whVars, rcpVars, psVars, hkVars, enVars, ccVars>>
  \/ \E p \in PageNumbers, t \in Times :
       FetchAllEventsPage(p, t) /\ UNCHANGED <<limVars, chunkVars, syncVars, fetchVars, clsVars, rpVars, agVars, rcVars, slVars, whVars, rcpVars, psVars, hkVars, enVars, ccVars>>
  \/ \E e \in TixrIds, s \in TixrIds, tr \in BOOLEAN, t \in Times :
       GetAttendance(e, s, tr, t) /\ UNCHANGED <<limVars, chunkVars, syncVars, fetchVars, clsVars, rpVars, agVars, rcVars, slVars, whVars, rcpVars, psVars, hkVars, enVars, ccVars>>
  \/ \E e \in TixrIds, p \in PageNumbers, t \in Times : \E c \in PaginatedCalls(e) :
       FetchTixrPaginatedPage(c, p, t) /\ UNCHANGED <<limVars, chunkVars, syncVars, fetchVars, clsVars, rpVars, agVars, rcVars, slVars, whVars, rcpVars, psVars, hkVars, enVars, ccVars>>
  \/ \E e \in TixrIds, p \in PageNumbers, t \in Times :
       DirectOrdersPage(e, p, t) /\ UNCHANGED <<limVars, chunkVars, syncVars, fetchVars, clsVars, rpVars, agVars, rcVars, slVars, whVars, rcpVars, psVars, hkVars, enVars, ccVars>>
  \/ NextRequest /\ UNCHANGED <<limVars, chunkVars, syncVars, fetchVars, clsVars, rpVars, agVars, rcVars, slVars, whVars, rcpVars, psVars, hkVars, enVars, ccVars>>

SpecSign == InitSign /\ [][NextSign]_vars

\* the keys of a query string are in sorted order
KeysSorted(query) ==
  \A i \in 1..Len(query) - 1 : KeyRank(query[i][1]) < KeyRank(query[i + 1][1])

\* C23: for every request sent to the ticketing API the string that was signed
\* is the path and query string of the URL sent (the part before &hash=), and
\* the keys of the query string are in sorted order
C23_SignedStringIsSentUrl ==
  sgPc = "sent" =>
    /\ sgUrl.hash = Hmac(HashString(sgUrl.path, sgUrl.query))
    /\ KeysSorted(sgUrl.query)

\* a paged request with five parameters was sent, and an attendance request
\* was answered from the hash cache before it
C23_Witness ==
  /\ sgPc = "sent"
  /\ Len(sgUrl.query) = 5
  /\ sgUrl.path[1] = "v1"
  /\ DOMAIN sgCache # {}
  /\ sgCount > Cardinality(DOMAIN sgCache) + 1

(***************************************************************************)
(* Specification of the attendance recap                                   *)
(***************************************************************************)
InitRecap == LimiterIdle /\ ChunkInit /\ SyncIdle /\ FetchIdle /\ ClsIdle /\ ReplayIdle /\ AggIdle /\ ReconcileIdle /\ SalesIdle /\ WebhookIdle /\ SignIdle /\ RecapInit /\ PassIdle /\ HookIdle /\ EnrichIdle /\ ChangesIdle

NextRecap ==
  \/ \E n \in RecapNames, c \in RecapCategories, ts \in RecapTicketLists :
       RecapRow(n, c, ts) /\ UNCHANGED <<limVars, chunkVars, syncVars, fetchVars, clsVars, rpVars, agVars, rcVars, slVars, whVars, sgVars, psVars, hkVars, enVars, ccVars>>
  \/ RecapReturn /\ UNCHANGED <<limVars, chunkVars, syncVars, fetchVars, clsVars, rpVars, agVars, rcVars, slVars, whVars, sgVars, psVars, hkVars, enVars, ccVars>>

SpecRecap == InitRecap /\ [][NextRecap]_vars

\* the sum of the buckets of recap
RECURSIVE SumOfRecap(_, _)
SumOfRecap(recap, keys) ==
  IF keys = {} THEN 0
  ELSE LET k == CHOOSE x \in keys : TRUE
       IN recap[k] + SumOfRecap(recap, keys \ {k})

\* C29: after any number of rows the buckets of the recap add up to the number
\* of tickets of these rows whose state is CHECKED_IN: each such ticket is in
\* one bucket once, however often it re-entered, and no other ticket is counted.
C29_RecapCountsCheckedIn ==
  rcpPc # "idle" => SumOfRecap(rcpRecap, DOMAIN rcpRecap) = rcpSeen

(***************************************************************************)
(* Specification of the repeated sync passes                               *)
(***************************************************************************)
InitPass == LimiterIdle /\ ChunkInit /\ SyncIdle /\ FetchIdle /\ ClsIdle /\ ReplayIdle /\ AggIdle /\ ReconcileIdle /\ SalesIdle /\ WebhookIdle /\ SignIdle /\ RecapIdle /\ PassInit /\ HookIdle /\ EnrichIdle /\ ChangesIdle

NextPass ==
  \/ AggregatePass /\ UNCHANGED <<limVars, chunkVars, syncVars, fetchVars, clsVars, rpVars, agVars, rcVars, slVars, whVars, sgVars, rcpVars, hkVars, enVars, ccVars>>
  \/ \E i \in 1..MaxPassRows :
       ApplyUpdate(i) /\ UNCHANGED <<limVars, chunkVars, syncVars, fetchVars, clsVars, rpVars, agVars, rcVars, slVars, whVars, sgVars, rcpVars, hkVars, enVars, ccVars>>
  \/ PassDone /\ UNCHANGED <<limVars, chunkVars, syncVars, fetchVars, clsVars, rpVars, agVars, rcVars, slVars, whVars, sgVars, rcpVars, hkVars, enVars, ccVars>>

SpecPass == InitPass /\ [][NextPass]_vars

\* C30: a pass that follows a pass whose updates were applied, with the
\* attendance of every ticket unchanged, emits no update, also when an order
\* is stored as several rows.
C30_RepeatedPassEmitsNothing ==
  psPass >= 2 => psUpdates = <<>>

\* C40: a log that replays to CHECKED_IN or CHECKED_OUT replays to a check-in
\* count of at least 1 and to a first check-in time that is not null.
C40_CheckedStateHasCheckIn ==
  (rpPc = "done" /\ rpResult.state \in {"CHECKED_IN", "CHECKED_OUT"}) =>
    /\ rpResult.checkInCount >= 1
    /\ ~rpResult.firstCheckInTime.null

\* the serials of the row whose transaction fetch failed on every attempt
FailedSerials == {i \in DOMAIN RowSerials(agOrder) : RowSerials(agOrder)[i].outcome.kind = "failed"}

\* C32: in the transaction-replay sync, a row that is stored with a checked-in
\* ticket and whose serials all failed to be fetched gets no update.
C32_FailedFetchKeepsStored ==
  (/\ agPc = "done"
   /\ agKind = "transactions"
   /\ ~agOrder.serialsAbsent
   /\ FailedSerials # {}
   /\ FailedSerials = DOMAIN RowSerials(agOrder)
   /\ ~agOrder.state.null
   /\ \E i \in DOMAIN agOrder.state.tokens : agOrder.state.tokens[i] = "CHECKED_IN")
  => ~agWrote

\* C31: an update the datastore applies changes the check-in columns of one
\* row of events_orders at most, the row it was computed from.
C31_UpdateChangesOneRow ==
  [][Cardinality({k \in DOMAIN psRows : psRows'[k] # psRows[k]}) <= 1]_vars

\* C33: event_order_updated of an event is written only when the order rows
\* of the event were saved.
C33_MarkerOnlyAfterSave == markerUpdated \subseteq ordersSaved

(***************************************************************************)
(* Specification of the concurrent order webhooks                          *)
(***************************************************************************)
InitHook ==
  /\ HookInit
  /\ LimiterIdle /\ ChunkInit /\ SyncIdle /\ FetchIdle /\ ClsIdle /\ ReplayIdle /\ AggIdle /\ ReconcileIdle /\ SalesIdle /\ WebhookIdle /\ SignIdle /\ RecapIdle /\ PassIdle /\ EnrichIdle /\ ChangesIdle

NextHook ==
  \/ \E h \in Handlers, found \in BOOLEAN : HookFetched(h, found) /\ UNCHANGED <<limVars, chunkVars, syncVars, fetchVars, clsVars, rpVars, agVars, rcVars, slVars, whVars, sgVars, rcpVars, psVars, enVars, ccVars>>
  \/ \E h \in Handlers, dbError \in BOOLEAN : HookSaveRows(h, dbError) /\ UNCHANGED <<limVars, chunkVars, syncVars, fetchVars, clsVars, rpVars, agVars, rcVars, slVars, whVars, sgVars, rcpVars, psVars, enVars, ccVars>>
  \/ \E h \in Handlers, dbError \in BOOLEAN : HookReadUser(h, dbError) /\ UNCHANGED <<limVars, chunkVars, syncVars, fetchVars, clsVars, rpVars, agVars, rcVars, slVars, whVars, sgVars, rcpVars, psVars, enVars, ccVars>>
  \/ \E h \in Handlers, dbError \in BOOLEAN : HookSaveUser(h, dbError) /\ UNCHANGED <<limVars, chunkVars, syncVars, fetchVars, clsVars, rpVars, agVars, rcVars, slVars, whVars, sgVars, rcpVars, psVars, enVars, ccVars>>
  \/ \E h \in Handlers, fetchError \in BOOLEAN : HookReadOrders(h, fetchError) /\ UNCHANGED <<limVars, chunkVars, syncVars, fetchVars, clsVars, rpVars, agVars, rcVars, slVars, whVars, sgVars, rcpVars, psVars, enVars, ccVars>>
  \/ \E h \in Handlers, upsertError \in BOOLEAN : HookUpsertSales(h, upsertError) /\ UNCHANGED <<limVars, chunkVars, syncVars, fetchVars, clsVars, rpVars, agVars, rcVars, slVars, whVars, sgVars, rcpVars, psVars, enVars, ccVars>>

SpecHook == InitHook /\ [][NextHook]_vars

HooksDone == \A h \in Handlers : hkPc[h] = "done"

\* C34: once the handlers of concurrent order webhooks have all answered,
\* and no datastore call failed, the events_sales row of every event that
\* has stored order rows is the aggregate of its stored COMPLETE rows.
C34_AggregateIsCurrent ==
  (HooksDone /\ hkErr = {}) =>
    \A e \in HookEvents :
      RowsOfEvent(hkRows, e) # <<>> =>
        hkSales[e] = SalesData(CompleteRows(RowsOfEvent(hkRows, e)))

\* C35: once order webhooks of one user in two different events have been
\* handled, and no datastore call failed, the stored event_ids holds both
\* events and every identifier it held before.
C35_EventIdsOnlyGrow ==
  (/\ HooksDone /\ hkErr = {}
   /\ \A h \in Handlers : hkOrder[h].hasUser /\ hkRows[h] # <<>>
   /\ \A g, h \in Handlers : g # h => hkOrder[g].event_id # hkOrder[h].event_id)
  => (hkHeld \cup {hkOrder[h].event_id : h \in Handlers}) \subseteq hkEventIds

(***************************************************************************)
(* Specification of the user enrichment                                    *)
(***************************************************************************)
InitEnrich ==
  /\ EnrichInit
  /\ LimiterIdle /\ ChunkInit /\ SyncIdle /\ FetchIdle /\ ClsIdle /\ ReplayIdle /\ AggIdle /\ ReconcileIdle /\ SalesIdle /\ WebhookIdle /\ SignIdle /\ RecapIdle /\ PassIdle /\ HookIdle /\ ChangesIdle

NextEnrich ==
  \/ \E countError \in BOOLEAN : EnrichCount(countError) /\ UNCHANGED <<limVars, chunkVars, syncVars, fetchVars, clsVars, rpVars, agVars, rcVars, slVars, whVars, sgVars, rcpVars, psVars, hkVars, ccVars>>
  \/ \E error \in BOOLEAN : EnrichSelect(error) /\ UNCHANGED <<limVars, chunkVars, syncVars, fetchVars, clsVars, rpVars, agVars, rcVars, slVars, whVars, sgVars, rcpVars, psVars, hkVars, ccVars>>
  \/ \E found \in SUBSET Users : EnrichFans(found) /\ UNCHANGED <<limVars, chunkVars, syncVars, fetchVars, clsVars, rpVars, agVars, rcVars, slVars, whVars, sgVars, rcpVars, psVars, hkVars, ccVars>>
  \/ \E upsertError \in BOOLEAN : EnrichUpsert(upsertError) /\ UNCHANGED <<limVars, chunkVars, syncVars, fetchVars, clsVars, rpVars, agVars, rcVars, slVars, whVars, sgVars, rcpVars, psVars, hkVars, ccVars>>
  \/ \E fanData \in {"data", "null", "error"} : UserFan(fanData) /\ UNCHANGED <<limVars, chunkVars, syncVars, fetchVars, clsVars, rpVars, agVars, rcVars, slVars, whVars, sgVars, rcpVars, psVars, hkVars, ccVars>>
  \/ \E failed \in BOOLEAN : UserOrdersPage(failed) /\ UNCHANGED <<limVars, chunkVars, syncVars, fetchVars, clsVars, rpVars, agVars, rcVars, slVars, whVars, sgVars, rcpVars, psVars, hkVars, ccVars>>
  \/ \E error \in BOOLEAN : UserUpsert(error) /\ UNCHANGED <<limVars, chunkVars, syncVars, fetchVars, clsVars, rpVars, agVars, rcVars, slVars, whVars, sgVars, rcpVars, psVars, hkVars, ccVars>>

SpecEnrich == InitEnrich /\ [][NextEnrich]_vars

\* C36: when a run of enrichUsers has ended without a failed query, every
\* user whose last_enriched_at was null at the start was selected by some
\* batch of the run.
C36_EveryNullUserFetched ==
  (enKind = "run" /\ enPc = "done" /\ ~enFailed) => enStart \subseteq enFetched

\* C37: when the fan is not found and the fallback order fetch fails,
\* processSingleUser leaves last_enriched_at of the user as it was stored.
C37_FailedFallbackNotMarked ==
  (enKind = "single" /\ enPc = "done" /\ puFan = "null" /\ puOrders.null)
    => puRow.last_enriched_at = puStored.last_enriched_at

(***************************************************************************)
(* Specification of one run of check-changes                               *)
(***************************************************************************)
InitChanges ==
  /\ ChangesInit
  /\ LimiterIdle /\ ChunkInit /\ SyncIdle /\ FetchIdle /\ ClsIdle /\ ReplayIdle /\ AggIdle /\ ReconcileIdle /\ SalesIdle /\ WebhookIdle /\ SignIdle /\ RecapIdle /\ PassIdle /\ HookIdle /\ EnrichIdle

NextChanges ==
  \/ \E response \in {"page", "empty", "notArray", "throws"} : FetchEventsTurn(response) /\ UNCHANGED <<limVars, chunkVars, syncVars, fetchVars, clsVars, rpVars, agVars, rcVars, slVars, whVars, sgVars, rcpVars, psVars, hkVars, enVars>>
  \/ \E error \in BOOLEAN : UpsertChanges(error) /\ UNCHANGED <<limVars, chunkVars, syncVars, fetchVars, clsVars, rpVars, agVars, rcVars, slVars, whVars, sgVars, rcpVars, psVars, hkVars, enVars>>
  \/ \E error \in BOOLEAN : DeleteRemoved(error) /\ UNCHANGED <<limVars, chunkVars, syncVars, fetchVars, clsVars, rpVars, agVars, rcVars, slVars, whVars, sgVars, rcpVars, psVars, hkVars, enVars>>

SpecChanges == InitChanges /\ [][NextChanges]_vars

\* C38: an event persisted before the run and deleted by it is absent from
\* the upstream event list.
C38_DeletedOnlyIfAbsentUpstream ==
  \A i \in DOMAIN ccStored :
    i \notin DOMAIN ccDb => i \notin TixrIdsOf(ccUpstream)

\* C39: an event persisted before the run keeps its event_order_updated and
\* event_attendance_updated while it is persisted.
C39_MarkersKept ==
  \A i \in DOMAIN ccStored \cap DOMAIN ccDb :
    /\ ccDb[i].event_order_updated = ccStored[i].event_order_updated
    /\ ccDb[i].event_attendance_updated = ccStored[i].event_attendance_updated

====
